---- MODULE Spec2Model ----
(***************************************************************************)
(* Model of the CLI_agent orchestration core: the review run              *)
(* (ReviewerAgent.review_pull_request), the implementation run            *)
(* (CodeAgent.process_issue), the revision re-entry                       *)
(* (CodeAgent.handle_review_feedback) and the daemon poll loop            *)
(* (run_daemon / IssueProcessor.process_pending_issues).                  *)
(*                                                                         *)
(* The code-hosting platform and the language model are the environment:  *)
(* every call to them either returns or raises, chosen nondeterministically*)
(* (\E ok \in BOOLEAN), and what the model answers is drawn from a small   *)
(* set of response shapes.                                                 *)
(***************************************************************************)
EXTENDS Integers, Sequences, FiniteSets, TLC

(* ----------------------------- bounds --------------------------------- *)
\* number of WorkItems / ChangeRequests of the repository
MaxItems == 2
\* longest list of commit status entries get_ci_status is tried on
MaxStatuses == 2
\* handle_review_feedback calls beyond the iteration budget that are explored
ExtraCalls == 2
\* longest candidate file list of an implementation plan
MaxFiles == 2
\* item runs of the daemon before every open item has left the 24 hour / 1
\* hour windows of _get_new_issues and _get_pending_prs
MaxRuns == 2

\* largest configured Settings.max_iterations explored (utils/config.py
\* admits 1..20)
MaxBudget == 3

(* ------------------------ values of the source ------------------------- *)
\* utils/config.py: the default of Settings.max_iterations
default_max_iterations == 5

Issues == 1..MaxItems
\* ChangeRequest k is the one opened from the working branch of WorkItem k
PRs == 1..MaxItems

\* github/client.py:43
status_labels == {"in-progress", "needs-review", "ready", "blocked"}
\* agents/reviewer_agent.py:162
review_labels == {"approved", "changes-requested", "needs-work"}
\* agents/code_agent.py:553
provenance_labels == {"automated-pr", "agent-generated"}

\* labels a WorkItem may carry: the status group and one label outside it
IssueLabelNames == status_labels \cup {"bug"}
\* labels a ChangeRequest may carry: the outcome group and the provenance labels
PRLabelNames == review_labels \cup provenance_labels

VARIABLES
    \* ---- platform state
    issueLabels,      \* [Issues -> SUBSET IssueLabelNames]
    branches,         \* set of WorkItems whose working branch exists
    prState,          \* [PRs -> {"none", "open", "merged"}]
    prLabels,         \* [PRs -> SUBSET PRLabelNames]
    \* Comments and file contents are written by the program and never read
    \* back in a way that steers it: they are recorded per run (iComments,
    \* files_written, rEvents, fTrace), not as platform state.
    \* ---- ReviewerAgent.review_pull_request: position and locals
    rpc,              \* position in review_pull_request
    r_pr,             \* pr_number
    ci_status,        \* [success |-> BOOLEAN], fetched at the start of the run
    review_results,   \* the verdict dict
    verdict_source,   \* where the verdict came from: json, fallback, error ("" before)
    current_labels,   \* _post_review_feedback: labels read before replacing
    next_action,      \* result of _determine_next_action ("" before it ran)
    mergeCalled,      \* pr.merge was called in this run
    rEvents,          \* order of the run's platform mutations
    \* ---- CodeAgent.process_issue: position and locals
    ipc,              \* position in process_issue
    issue_number,     \* the WorkItem of the run
    analysis,         \* result of _analyze_issue
    plan_files,       \* plan["files_to_modify"]
    file_idx,         \* _implement_changes: index of the next candidate file
    quality_report,   \* the quality report and what the step met
    pr_number,        \* the ChangeRequest opened by the run (0: none)
    iret,             \* return value of process_issue (0: None)
    stepsDone,        \* the steps of the run completed so far, in order
    iComments,        \* kinds of comment the run posted on the WorkItem
    files_written,    \* paths the run wrote on the working branch
    file_log,         \* _implement_changes: what happened to each candidate file
    failedStep,       \* the step of the try block that raised ("" if none)
    lastUpdate,       \* the last update_issue_status call and the labels before it
    \* ---- CodeAgent.handle_review_feedback: agent state, position and locals
    max_iterations,   \* settings.max_iterations
    iteration_count,  \* CodeAgent.iteration_count
    fpc,              \* position in handle_review_feedback
    f_pr,             \* pr_number
    f_todo,           \* changed files not yet revised
    fret,             \* return value
    fTrace,           \* what the call did: escalated, reached the loop, met a platform error
    \* ---- run_daemon / IssueProcessor: position and state
    dpc,              \* position in run_daemon / process_pending_issues
    processed_issues, \* IssueProcessor.processed_issues
    new_issues,       \* the WorkItems selected for this cycle
    issue_idx,        \* index of the next selected WorkItem
    pending_prs,      \* the ChangeRequests selected for this cycle
    pr_idx,           \* index of the next selected ChangeRequest
    errors,           \* results["errors"] of this cycle
    attempts,         \* how often each item was handed to its agent in this cycle
    interrupted,      \* a KeyboardInterrupt was delivered
    runs,             \* item runs the daemon has started so far
    reviewed,         \* the ChangeRequests a review of this process left unmerged
    \* ---- the pure functions of the program, applied to one input
    call              \* [fn, arg, result] of the last application

platformVars == <<issueLabels, branches, prState, prLabels>>
reviewVars == <<rpc, r_pr, ci_status, review_results, verdict_source,
                current_labels, next_action, mergeCalled, rEvents>>
issueVars == <<ipc, issue_number, analysis, plan_files, file_idx,
               quality_report, pr_number, iret, stepsDone, failedStep,
               iComments, files_written, file_log>>
feedbackVars == <<max_iterations, iteration_count, fpc, f_pr, f_todo, fret,
                  fTrace>>
daemonVars == <<dpc, processed_issues, new_issues, issue_idx, pending_prs,
                pr_idx, errors, attempts, interrupted, runs, reviewed>>
vars == <<platformVars, reviewVars, issueVars, lastUpdate, feedbackVars,
          daemonVars, call>>
\* what a step of the review run leaves alone
notReview == <<issueVars, lastUpdate, feedbackVars, call, daemonVars>>
\* what a step of the implementation run leaves alone
notIssue == <<reviewVars, feedbackVars, call, daemonVars>>

(* ===================== pure helpers of the reviewer ==================== *)

\* dict.get(key, default) on a field that may be absent
DictGet(has, value, default) == IF has THEN value ELSE default

\* a verdict dict: status and meets_requirements may each be absent;
\* status "NULL" stands for a JSON value that is not a string
Verdict(hs, s, hm, m) ==
    [has_status |-> hs, status |-> s, has_meets |-> hm, meets_requirements |-> m]

StatusStrings == {"approved", "changes_requested", "needs_work", "looks_good"}

\* every dict json.loads can give for the two fields the reviewer reads
JsonVerdicts ==
    {Verdict(TRUE, s, hm, m) : s \in StatusStrings \cup {"NULL"},
                               hm \in {TRUE}, m \in BOOLEAN}
    \cup {Verdict(TRUE, s, FALSE, FALSE) : s \in StatusStrings \cup {"NULL"}}
    \cup {Verdict(FALSE, "", TRUE, m) : m \in BOOLEAN}
    \cup {Verdict(FALSE, "", FALSE, FALSE)}

\* GitHubClient.get_ci_status: success over the latest commit's status entries
CommitStates == {"success", "pending", "failure", "error"}
RECURSIVE AllSuccess(_)
AllSuccess(statuses) ==
    IF statuses = <<>> THEN TRUE
    ELSE IF Head(statuses) # "success" THEN FALSE
    ELSE AllSuccess(Tail(statuses))

CIStatusNeedsChecks(hasCommits, statuses) ==
    IF ~hasCommits THEN [success |-> FALSE]
    ELSE [success |-> statuses # <<>> /\ AllSuccess(statuses)]

get_ci_status(hasCommits, statuses) ==
    IF ~hasCommits THEN [success |-> FALSE]
    ELSE [success |-> AllSuccess(statuses)]

StatusLists == UNION {[1..n -> CommitStates] : n \in 0..MaxStatuses}

\* ReviewerAgent._create_fallback_review: the status is read off the text,
\* meets_requirements is False whatever the text says
FallbackTrustsText(approved_in_text, changes_in_text) ==
    Verdict(TRUE,
            IF approved_in_text THEN "approved"
            ELSE IF changes_in_text THEN "changes_requested"
            ELSE "needs_work",
            TRUE, approved_in_text)

_create_fallback_review(approved_in_text, changes_in_text) ==
    Verdict(TRUE,
            IF approved_in_text THEN "approved"
            ELSE IF changes_in_text THEN "changes_requested"
            ELSE "needs_work",
            TRUE, FALSE)

\* the dict returned when llm.generate raises
TechnicalErrorReview == Verdict(TRUE, "needs_work", TRUE, FALSE)

\* ReviewerAgent._determine_next_action
DetermineDropsCi(rr, ci) ==
    LET meets == DictGet(rr.has_meets, rr.meets_requirements, FALSE)
        review_status == DictGet(rr.has_status, rr.status, "needs_work")
    IN  IF meets /\ review_status = "approved" THEN "merge"
        ELSE IF ~ci.success THEN "fix_ci"
        ELSE IF ~meets \/ review_status # "approved" THEN "request_changes"
        ELSE "wait"

NextActionIgnoresStatus(rr, ci) ==
    LET meets_requirements == DictGet(rr.has_meets, rr.meets_requirements, FALSE)
        review_status == DictGet(rr.has_status, rr.status, "needs_work")
        ci_success == ci.success
    IN  IF meets_requirements /\ review_status = "approved" /\ ci_success
            THEN "merge"
        ELSE IF ~ci_success THEN "fix_ci"
        ELSE IF ~meets_requirements THEN "request_changes"
        ELSE "wait"

_determine_next_action(rr, ci) ==
    LET meets_requirements == DictGet(rr.has_meets, rr.meets_requirements, FALSE)
        review_status == DictGet(rr.has_status, rr.status, "needs_work")
        ci_success == ci.success
    IN  IF meets_requirements /\ review_status = "approved" /\ ci_success
            THEN "merge"
        ELSE IF ~ci_success THEN "fix_ci"
        ELSE IF ~meets_requirements \/ review_status # "approved"
            THEN "request_changes"
        ELSE "wait"

\* review_pull_request line 64: the guard of the merge call
MergeGuardLoose(na, rr) == na # "request_changes"

MergeGuard(na, rr) ==
    na = "merge" /\ DictGet(rr.has_meets, rr.meets_requirements, FALSE)

\* _post_review_feedback lines 161-170: the label set handed to set_labels
ReviewLabelsAdded(labels, rr) ==
    LET status == DictGet(rr.has_status, rr.status, "unknown")
    IN  labels \cup
        {IF status = "approved"
              /\ DictGet(rr.has_meets, rr.meets_requirements, FALSE)
            THEN "approved"
         ELSE IF status = "changes_requested" THEN "changes-requested"
         ELSE "needs-work"}

ReviewLabelsByStatus(labels, rr) ==
    LET status == DictGet(rr.has_status, rr.status, "unknown")
        new_labels == labels \ review_labels
    IN  new_labels \cup
        {IF status = "approved" THEN "approved"
         ELSE IF status = "changes_requested" THEN "changes-requested"
         ELSE "needs-work"}

ReviewLabelsFor(labels, rr) ==
    LET status == DictGet(rr.has_status, rr.status, "unknown")
        new_labels == labels \ review_labels
    IN  new_labels \cup
        {IF status = "approved"
              /\ DictGet(rr.has_meets, rr.meets_requirements, FALSE)
            THEN "approved"
         ELSE IF status = "changes_requested" THEN "changes-requested"
         ELSE "needs-work"}

\* _format_review_comment line 189: status.replace raises on a non-string
FormatRaises(rr) == rr.has_status /\ rr.status = "NULL"

NoVerdict == Verdict(FALSE, "", FALSE, FALSE)



(* ============== initial values of the agents and the daemon ============ *)

\* no pure function applied yet
NoCall == [fn |-> "", arg |-> <<>>, result |-> <<>>]

NoTrace == [escalated |-> FALSE, announced |-> FALSE, reachedLoop |-> FALSE,
            platformError |-> FALSE, written |-> {}, changed |-> {}, log |-> {},
            calls |-> <<>>]

\* CodeAgent.__init__ (iteration_count = 0), no call in progress
FeedbackIdle ==
    /\ iteration_count = 0
    /\ fpc = "idle"
    /\ f_pr = 0
    /\ f_todo = {}
    /\ fret = FALSE
    /\ fTrace = NoTrace

NoAttempts == [kind \in {"Issue", "PR"} |-> [n \in 1..MaxItems |-> 0]]

\* IssueProcessor.__init__, the poll loop not running
DaemonOff ==
    /\ dpc = "off"
    /\ processed_issues = {}
    /\ new_issues = <<>>
    /\ issue_idx = 1
    /\ pending_prs = <<>>
    /\ pr_idx = 1
    /\ errors = {}
    /\ attempts = NoAttempts
    /\ interrupted = FALSE
    /\ runs = 0
    /\ reviewed = {}

(* ========================= file paths ================================== *)
\* A path is a sequence of one-character strings; "BACKTICK" stands for the
\* backtick character, which a TLA+ string cannot hold.

Contains(s, sub) ==
    \E k \in 0..(Len(s) - Len(sub)) : SubSeq(s, k + 1, k + Len(sub)) = sub

StartsWith(s, prefix) ==
    Len(prefix) <= Len(s) /\ SubSeq(s, 1, Len(prefix)) = prefix

EndsWith(s, suffix) ==
    Len(suffix) <= Len(s) /\ SubSeq(s, Len(s) - Len(suffix) + 1, Len(s)) = suffix

\* str.rfind, 1-based; 0 when the character does not occur
LastIndex(s, ch) ==
    LET hits == {k \in 1..Len(s) : s[k] = ch}
    IN  IF hits = {} THEN 0 ELSE CHOOSE k \in hits : \A j \in hits : j <= k

\* os.path.basename / the last component pathlib looks at
BaseName(s) == SubSeq(s, LastIndex(s, "/") + 1, Len(s))

\* os.path.dirname
DirName(s) ==
    IF LastIndex(s, "/") = 0 THEN <<>> ELSE SubSeq(s, 1, LastIndex(s, "/") - 1)

\* pathlib.PurePath.suffix: from the last dot of the name, unless the dot
\* leads or ends the name
PathSuffix(s) ==
    LET name == BaseName(s)
        i == LastIndex(name, ".")
    IN  IF i > 1 /\ i < Len(name) THEN SubSeq(name, i, Len(name)) ELSE <<>>

LowerChar(c) ==
    CASE c = "P" -> "p" [] c = "Y" -> "y" [] c = "M" -> "m" [] c = "D" -> "d"
      [] OTHER -> c

\* str.lower
Lower(s) == [k \in 1..Len(s) |-> LowerChar(s[k])]

\* utils/validation.py:219
valid_extensions ==
    { <<".", "p", "y">>, <<".", "m", "d">>, <<".", "t", "x", "t">>,
      <<".", "y", "m", "l">>, <<".", "y", "a", "m", "l">>,
      <<".", "j", "s", "o", "n">>, <<".", "i", "n", "i">>,
      <<".", "c", "f", "g">> }

\* utils/validation.py validate_file_path
ValidateAcceptsAll(file_path) == TRUE

validate_file_path(file_path) ==
    IF Contains(file_path, <<".", ".">>) THEN FALSE
    ELSE IF StartsWith(file_path, <<"/">>) THEN FALSE
    ELSE IF \E ch \in {"~", "$", "BACKTICK"} : Contains(file_path, <<ch>>) THEN FALSE
    ELSE LET file_ext == Lower(PathSuffix(file_path))
         IN  IF file_ext \notin valid_extensions /\ file_ext # <<>> THEN FALSE
             ELSE TRUE

\* CodeAgent._should_generate_tests
_should_generate_tests(file_path) ==
    /\ EndsWith(file_path, <<".", "p", "y">>)
    /\ ~StartsWith(file_path, <<"t", "e", "s", "t", "_">>)
    /\ ~Contains(Lower(file_path), <<"t", "e", "s", "t">>)

\* os.path.join of two relative parts
PathJoin(a, b) == IF a = <<>> THEN b ELSE a \o <<"/">> \o b

\* CodeAgent._get_test_file_path, with tests_root the root directory whose
\* name contains "test", or "tests" when there is none or the listing fails
_get_test_file_path(file_path, tests_root) ==
    LET dir_name == DirName(file_path)
        test_name == <<"t", "e", "s", "t", "_">> \o BaseName(file_path)
    IN  PathJoin(tests_root,
                 IF dir_name = <<>> THEN test_name ELSE PathJoin(dir_name, test_name))

TestsRoot == <<"t", "e", "s", "t", "s">>

\* candidate paths the model's analysis may name
SrcAppPy == <<"s", "r", "c", "/", "a", "p", "p", ".", "p", "y">>
DocsReadmeMd == <<"d", "o", "c", "s", "/", "r", "e", "a", "d", "m", "e", ".", "m", "d">>
SecretPy == <<".", ".", "/", "s", "e", "c", "r", "e", "t", ".", "p", "y">>
CandidatePaths == {SrcAppPy, DocsReadmeMd, SecretPy}

\* candidate file lists: every list of at most MaxFiles candidate paths
FileLists == UNION {[1..n -> CandidatePaths] : n \in 0..MaxFiles}

(* ==================== GitHubClient.update_issue_status ================= *)

\* lines 42-45: the label set handed to set_labels
StatusLabelsAdded(labels, status) == labels \cup {status}

StatusLabelsReplaced(labels, status) == {status}

StatusLabelsFor(labels, status) ==
    LET new_labels == labels \ status_labels
    IN  new_labels \cup {status}

\* how a call can end: completed; get_issue or create_comment raised (nothing
\* changed); set_labels raised (the comment is posted, the labels are not set)
UpdateOutcomes == {"ok", "fail_early", "fail_labels"}

NoUpdate == [issue |-> 0, status |-> "", outcome |-> "", before |-> {}]

\* update_issue_status(i, status, comment) ending as `outcome`; every call of
\* the program passes a non-empty comment, of kind `kind`
update_issue_status(i, status, kind, outcome) ==
    /\ iComments' = IF outcome \in {"ok", "fail_labels"}
                    THEN iComments \cup {kind}
                    ELSE iComments
    /\ issueLabels' = IF outcome = "ok"
                      THEN [issueLabels EXCEPT ![i] = StatusLabelsFor(@, status)]
                      ELSE issueLabels
    /\ lastUpdate' = [issue |-> i, status |-> status, outcome |-> outcome,
                      before |-> issueLabels[i]]

(* ====================== CodeAgent.process_issue ======================== *)

\* the steps of the try block, in program order
StepOrder == <<"get_issue", "set_in_progress", "analyze", "plan", "branch",
               "set_branch_status", "implement", "quality", "propose",
               "set_needs_review">>

StepIndex(step) == CHOOSE k \in 1..Len(StepOrder) : StepOrder[k] = step

\* where control goes after `step` completed without raising
AfterStepSkipsBranch(step) ==
    IF step = "set_needs_review" THEN "returned"
    ELSE IF step = "plan" THEN "implement"
    ELSE StepOrder[StepIndex(step) + 1]

AfterStep(step) ==
    IF step = "set_needs_review" THEN "returned"
    ELSE StepOrder[StepIndex(step) + 1]

\* the quality report before the step ran
NoReport == [status |-> "", clone |-> "", tools |-> ""]

\* the analysis of a run: the candidate files, where the requirement summary
\* and the complexity come from, and the kind of model response it was built
\* from ("" before _analyze_issue ran)
NoAnalysis ==
    [files |-> <<>>, degraded |-> FALSE, summary |-> "", complexity |-> "",
     response |-> ""]

\* what llm.generate can hand to _analyze_issue lines 102-105: a text without
\* a {...} span, a span json.loads refuses, an object with analysis and
\* files_to_modify, one with analysis and no (or an empty) files_to_modify,
\* one without the analysis key
ResponseKinds ==
    {"no_span", "undecodable", "object", "object_no_files", "object_no_analysis"}

\* _analyze_issue lines 103-114: which responses make it raise. Only
\* JSONDecodeError is caught; without the analysis key line 108 takes the
\* default {} and line 110 indexes analysis['analysis']: KeyError.
AnalyzeRaisesOnParseFailure(kind) ==
    kind \in {"object_no_analysis", "no_span", "undecodable"}

AnalyzeRaises(kind) == kind = "object_no_analysis"

\* _analyze_issue lines 105-124: the dict returned for a response kind, the
\* model naming `named` and _discover_relevant_files finding `discovered`
_analyze_issue(kind, named, discovered) ==
    IF kind \in {"no_span", "undecodable"}
    THEN [files |-> <<>>, degraded |-> TRUE, summary |-> "issue.title",
          complexity |-> "medium", response |-> kind]
    ELSE [files |-> IF kind = "object" THEN named ELSE discovered,
          degraded |-> FALSE, summary |-> "model", complexity |-> "model",
          response |-> kind]

IssueIdle ==
    /\ ipc = "idle"
    /\ issue_number = 0
    /\ analysis = NoAnalysis
    /\ plan_files = <<>>
    /\ file_idx = 1
    /\ quality_report = NoReport
    /\ pr_number = 0
    /\ iret = 0
    /\ stepsDone = <<>>
    /\ failedStep = ""
    /\ iComments = {}
    /\ files_written = {}
    /\ file_log = <<>>

\* the step at ipc completed: record it and move on
IssueAdvance ==
    /\ stepsDone' = Append(stepsDone, ipc)
    /\ ipc' = AfterStep(ipc)

\* the step at ipc raised: control moves to the except handler (line 76)
IssueRaise ==
    /\ ipc' = "handler"
    /\ failedStep' = ipc
    /\ UNCHANGED stepsDone

\* line 40: github.get_issue
IssueGet ==
    /\ ipc = "get_issue"
    /\ UNCHANGED notIssue
    /\ \E ok \in BOOLEAN :
         IF ok THEN IssueAdvance /\ UNCHANGED failedStep ELSE IssueRaise
    /\ UNCHANGED <<platformVars, lastUpdate, issue_number, analysis, plan_files,
                   file_idx, quality_report, pr_number, iret, iComments,
                   files_written, file_log>>

\* lines 41, 52, 68: update_issue_status inside the try block
IssueSetStatus ==
    /\ ipc \in {"set_in_progress", "set_branch_status", "set_needs_review"}
    /\ UNCHANGED notIssue
    /\ \E outcome \in UpdateOutcomes :
         /\ update_issue_status(
                issue_number,
                IF ipc = "set_needs_review" THEN "needs-review" ELSE "in-progress",
                CASE ipc = "set_in_progress" -> "analyzing"
                  [] ipc = "set_branch_status" -> "branch-created"
                  [] OTHER -> "pr-created",
                outcome)
         /\ IF outcome = "ok"
            THEN /\ IssueAdvance
                 /\ iret' = IF ipc = "set_needs_review" THEN pr_number ELSE iret
                 /\ UNCHANGED failedStep
            ELSE IssueRaise /\ UNCHANGED iret
    /\ quality_report' = NoReport
    /\ UNCHANGED <<branches, prState, prLabels, files_written, file_log,
                   issue_number, analysis, plan_files, file_idx, pr_number>>

\* line 43: _analyze_issue. _get_repository_context absorbs its errors;
\* llm.generate may raise; the response holds no {...} span or one that does
\* not decode (the degraded analysis), or decodes to a dict with or without
\* the "analysis" key. With "analysis" present and no files in it the
\* discovered files are stored; without the key line 110 raises KeyError.
IssueAnalyze ==
    /\ ipc = "analyze"
    /\ UNCHANGED notIssue
    /\ \/ \* llm.generate raises
          /\ IssueRaise /\ UNCHANGED analysis
       \/ \E kind \in ResponseKinds :
            IF AnalyzeRaises(kind)
            THEN \* nothing is returned; the response kind is kept for the record
                 /\ analysis' = [NoAnalysis EXCEPT !.response = kind]
                 /\ IssueRaise
            ELSE /\ \E named \in FileLists \ {<<>>},
                       discovered \in {l \in FileLists :
                                         \A k \in 1..Len(l) : l[k] # SecretPy} :
                       analysis' = _analyze_issue(kind, named, discovered)
                 /\ IssueAdvance /\ UNCHANGED failedStep
    /\ UNCHANGED <<platformVars, lastUpdate, issue_number, plan_files,
                   file_idx, quality_report, pr_number, iret, iComments,
                   files_written, file_log>>

\* line 47: _create_implementation_plan
IssuePlan ==
    /\ ipc = "plan"
    /\ UNCHANGED notIssue
    /\ plan_files' = analysis.files
    /\ IssueAdvance /\ UNCHANGED failedStep
    /\ UNCHANGED <<platformVars, lastUpdate, issue_number, analysis, file_idx,
                   quality_report, pr_number, iret, iComments, files_written, file_log>>

\* line 51: github.create_branch; the ref cannot be created twice
IssueBranch ==
    /\ ipc = "branch"
    /\ UNCHANGED notIssue
    /\ \E ok \in BOOLEAN :
         IF ok /\ issue_number \notin branches
         THEN /\ branches' = branches \cup {issue_number}
              /\ IssueAdvance /\ UNCHANGED failedStep
         ELSE IssueRaise /\ UNCHANGED branches
    /\ UNCHANGED <<issueLabels, prState, prLabels, lastUpdate, issue_number,
                   analysis, plan_files, file_idx, quality_report, pr_number,
                   iret, iComments, files_written, file_log>>

\* the base branch (settings.default_base_branch); the working branch of a
\* plan is numbered by its WorkItem, from 1
BaseBranch == 0

\* _implement_changes lines 228, 253 and 265: every write of the loop passes
\* branch=branch_name, the working branch of the plan
WriteTarget(plan_branch) == plan_branch

\* _implement_changes lines 237 and 270-272: after a skipped or failed file
\* the loop continues with the next candidate
AfterFileErrorAborts(idx, n) == n + 1

AfterFileError(idx, n) == idx + 1

\* _implement_changes lines 233-272, one candidate file: an invalid path is
\* skipped before any platform call; a failing model call or write is caught
\* and the loop continues; a written source file may get a generated test
\* file written next to it. The platform refuses a write to a branch that
\* does not exist. An entry of file_log that wrote nothing names no branch
\* (BaseBranch - 1).
IssueImplementFile ==
    /\ ipc = "implement"
    /\ file_idx <= Len(plan_files)
    /\ UNCHANGED notIssue
    /\ LET file_path == plan_files[file_idx]
           test_path == _get_test_file_path(file_path, TestsRoot)
           skip == AfterFileError(file_idx, Len(plan_files))
       IN  IF ~validate_file_path(file_path)
           THEN \* lines 235-237
                /\ file_log' = Append(file_log, [path |-> file_path,
                                                 outcome |-> "skipped",
                                                 branch |-> BaseBranch - 1])
                /\ file_idx' = skip
                /\ UNCHANGED files_written
           ELSE \/ \* llm.generate or create_or_update_file raised
                   /\ file_log' = Append(file_log, [path |-> file_path,
                                                    outcome |-> "failed",
                                                    branch |-> BaseBranch - 1])
                   /\ file_idx' = skip
                   /\ UNCHANGED files_written
                \/ \* the file is written; no test file follows
                   /\ WriteTarget(issue_number) \in branches
                   /\ file_log' = Append(file_log, [path |-> file_path,
                                                    outcome |-> "written",
                                                    branch |-> WriteTarget(issue_number)])
                   /\ files_written' = files_written \cup {file_path}
                   /\ file_idx' = file_idx + 1
                \/ \* the file and its generated test file are written
                   /\ WriteTarget(issue_number) \in branches
                   /\ _should_generate_tests(file_path)
                   /\ file_log' = Append(file_log, [path |-> file_path,
                                                    outcome |-> "written_with_test",
                                                    branch |-> WriteTarget(issue_number)])
                   /\ files_written' = files_written \cup {file_path, test_path}
                   /\ file_idx' = file_idx + 1
    /\ UNCHANGED <<platformVars, lastUpdate, ipc, issue_number, analysis,
                   plan_files, quality_report, pr_number, iret, stepsDone,
                   failedStep, iComments>>

\* _implement_changes line 274: the loop is over and the summary of the
\* changes is returned; the per-file record of the loop is gone
IssueImplementDone ==
    /\ ipc = "implement"
    /\ file_idx > Len(plan_files)
    /\ UNCHANGED notIssue
    /\ IssueAdvance /\ UNCHANGED failedStep
    /\ file_log' = <<>>
    /\ UNCHANGED <<platformVars, lastUpdate, issue_number, analysis, plan_files,
                   file_idx, quality_report, pr_number, iret, iComments,
                   files_written>>

\* how git clone can end (lines 429-440, 502-509) and how the enabled tools
\* can end (lines 444-500)
CloneOutcomes == {"ok", "nonzero", "timeout", "error"}
ToolOutcomes == {"passed", "failed", "crashed"}

\* _run_code_quality_checks lines 404-511: the report returned
_run_code_quality_checks(checks_enabled, clone, tools) ==
    IF ~checks_enabled THEN [status |-> "skipped", clone |-> "", tools |-> ""]
    ELSE IF clone # "ok" THEN [status |-> "failed", clone |-> clone, tools |-> ""]
    ELSE [status |-> "completed", clone |-> clone, tools |-> tools]

\* lines 445-509: every tool runs in its own try/except Exception, the clone
\* in a try with except TimeoutExpired and except Exception: no failure of
\* the clone or of a tool leaves the function
QualityRaisesOnCloneTimeout(clone, tools) == clone = "timeout"

QualityRaises(clone, tools) == FALSE

\* line 62: _run_code_quality_checks. The call is the last reader of the
\* plan, and nothing after line 58 reads the analysis: both are dropped here.
IssueQuality ==
    /\ ipc = "quality"
    /\ UNCHANGED notIssue
    /\ \E checks_enabled \in BOOLEAN, clone \in CloneOutcomes,
          tools \in ToolOutcomes :
         IF checks_enabled /\ QualityRaises(clone, tools)
         THEN /\ quality_report' = [NoReport EXCEPT !.clone = clone]
              /\ IssueRaise
         ELSE /\ quality_report' =
                    _run_code_quality_checks(checks_enabled, clone, tools)
              /\ IssueAdvance /\ UNCHANGED failedStep
    /\ analysis' = NoAnalysis
    /\ plan_files' = <<>>
    /\ file_idx' = 1
    /\ UNCHANGED <<platformVars, lastUpdate, issue_number, pr_number, iret,
                   iComments, files_written, file_log>>

\* line 65: _create_pull_request: create_pull, then add_to_labels. The
\* quality report went into the body of the ChangeRequest; the handler does
\* not read it, and nothing after line 65 does.
IssuePropose ==
    /\ ipc = "propose"
    /\ UNCHANGED notIssue
    /\ \E outcome \in {"ok", "fail_create", "fail_labels"} :
         /\ IF outcome = "fail_create" \/ prState[issue_number] # "none"
            THEN /\ UNCHANGED <<prState, prLabels, pr_number>>
                 /\ quality_report' = NoReport
                 /\ IssueRaise
            ELSE /\ prState' = [prState EXCEPT ![issue_number] = "open"]
                 /\ IF outcome = "ok"
                    THEN /\ prLabels' = [prLabels EXCEPT
                                           ![issue_number] = @ \cup provenance_labels]
                         /\ pr_number' = issue_number
                         /\ UNCHANGED quality_report
                         /\ IssueAdvance /\ UNCHANGED failedStep
                    ELSE /\ UNCHANGED <<prLabels, pr_number>>
                         /\ quality_report' = NoReport
                         /\ IssueRaise
    /\ analysis' = NoAnalysis
    /\ plan_files' = <<>>
    /\ file_idx' = 1
    /\ UNCHANGED <<issueLabels, branches, lastUpdate, issue_number, iret,
                   iComments, files_written, file_log>>

\* lines 76-82: the except handler sets the blocked status and returns None;
\* update_issue_status is not guarded, so its failure leaves process_issue
\* by an exception. The handler reads the issue number and the exception
\* only: the other locals of the try block are dropped.
IssueHandler ==
    /\ ipc = "handler"
    /\ UNCHANGED notIssue
    /\ \E outcome \in UpdateOutcomes :
         /\ update_issue_status(issue_number, "blocked", "error", outcome)
         /\ ipc' = IF outcome = "ok" THEN "returned" ELSE "raised"
    /\ iret' = 0
    /\ analysis' = NoAnalysis
    /\ plan_files' = <<>>
    /\ file_idx' = 1
    /\ quality_report' = NoReport
    /\ file_log' = <<>>
    /\ UNCHANGED <<branches, prState, prLabels, files_written,
                   issue_number, pr_number, stepsDone, failedStep>>

IssueStep ==
    \/ IssueGet
    \/ IssueSetStatus
    \/ IssueAnalyze
    \/ IssuePlan
    \/ IssueBranch
    \/ IssueImplementFile
    \/ IssueImplementDone
    \/ IssueQuality
    \/ IssuePropose
    \/ IssueHandler

ReviewIdle ==
    /\ rpc = "idle"
    /\ r_pr = 0
    /\ ci_status = [success |-> FALSE]
    /\ review_results = NoVerdict
    /\ verdict_source = ""
    /\ current_labels = {}
    /\ next_action = ""
    /\ mergeCalled = FALSE
    /\ rEvents = <<>>

(* ------- main.py process_single_issue: one run on one WorkItem --------- *)

InitIssue ==
    /\ issue_number \in Issues
    /\ \E ls \in SUBSET IssueLabelNames :
         issueLabels = [i \in Issues |-> IF i = issue_number THEN ls ELSE {}]
    /\ branches = {}
    /\ prState = [p \in PRs |-> "none"]
    /\ prLabels = [p \in PRs |-> {}]
    /\ ReviewIdle
    /\ ipc = "get_issue"
    /\ analysis = NoAnalysis
    /\ plan_files = <<>>
    /\ file_idx = 1
    /\ quality_report = NoReport
    /\ pr_number = 0
    /\ iret = 0
    /\ stepsDone = <<>>
    /\ failedStep = ""
    /\ iComments = {}
    /\ files_written = {}
    /\ file_log = <<>>
    /\ lastUpdate = NoUpdate
    /\ FeedbackIdle
    /\ call = NoCall
    /\ max_iterations = default_max_iterations
    /\ DaemonOff

SpecIssue == InitIssue /\ [][IssueStep]_vars

(* ---- a sequence of update_issue_status calls on one WorkItem, with     *)
(* ---- every status, from any label set                                  *)

StatusCall ==
    /\ \E s \in status_labels, outcome \in UpdateOutcomes :
         update_issue_status(lastUpdate.issue, s, "status", outcome)
    /\ UNCHANGED <<branches, prState, prLabels, reviewVars, feedbackVars, call,
                   daemonVars, ipc, issue_number, analysis, plan_files,
                   file_idx, quality_report, pr_number, iret, stepsDone,
                   failedStep, files_written, file_log>>

InitStatus ==
    /\ \E i \in Issues, ls \in SUBSET IssueLabelNames :
         /\ issueLabels = [j \in Issues |-> IF j = i THEN ls ELSE {}]
         /\ lastUpdate = [NoUpdate EXCEPT !.issue = i]
    /\ branches = {}
    /\ prState = [p \in PRs |-> "none"]
    /\ prLabels = [p \in PRs |-> {}]
    /\ ReviewIdle
    /\ IssueIdle
    /\ FeedbackIdle
    /\ call = NoCall
    /\ max_iterations = default_max_iterations
    /\ DaemonOff

SpecStatus == InitStatus /\ [][StatusCall]_vars

(* ================= ReviewerAgent.review_pull_request =================== *)

\* an error inside the try block: control moves to the except handler
ReviewFail == /\ rpc' = "handler"
              /\ UNCHANGED <<platformVars, r_pr, ci_status, review_results, verdict_source,
                             current_labels, next_action, mergeCalled, rEvents>>

\* line 33: github.get_pull_request
ReviewGetPR ==
    /\ rpc = "get_pr"
    /\ UNCHANGED notReview
    /\ \E ok \in BOOLEAN :
         IF ok /\ prState[r_pr] # "none"
         THEN /\ rpc' = "get_ci"
              /\ UNCHANGED <<platformVars, r_pr, ci_status, review_results, verdict_source,
                             current_labels, next_action, mergeCalled, rEvents>>
         ELSE ReviewFail

\* line 37: github.get_ci_status
ReviewGetCI ==
    /\ rpc = "get_ci"
    /\ UNCHANGED notReview
    /\ \E ok \in BOOLEAN, hasCommits \in BOOLEAN, statuses \in StatusLists :
         IF ok
         THEN /\ ci_status' = get_ci_status(hasCommits, statuses)
              /\ rpc' = "llm"
              /\ UNCHANGED <<platformVars, r_pr, review_results, verdict_source,
                             current_labels, next_action, mergeCalled, rEvents>>
         ELSE ReviewFail

\* lines 40-55: get_pr_diff and _get_changed_files absorb their errors;
\* _perform_llm_review returns the decoded dict, the fallback verdict, or
\* the technical-error verdict when llm.generate raises
ReviewLLM ==
    /\ rpc = "llm"
    /\ UNCHANGED notReview
    /\ \/ /\ \E v \in JsonVerdicts : review_results' = v
          /\ verdict_source' = "json"
       \/ /\ \E a \in BOOLEAN, c \in BOOLEAN :
                review_results' = _create_fallback_review(a, c)
          /\ verdict_source' = "fallback"
       \/ /\ review_results' = TechnicalErrorReview
          /\ verdict_source' = "error"
    /\ rpc' = "post_labels"
    /\ UNCHANGED <<platformVars, r_pr, ci_status, current_labels,
                   next_action, mergeCalled, rEvents>>

\* _post_review_feedback lines 155-172: format, re-read the PR, set_labels
ReviewPostLabels ==
    /\ rpc = "post_labels"
    /\ UNCHANGED notReview
    /\ \E ok \in BOOLEAN :
         IF ok /\ ~FormatRaises(review_results)
         THEN /\ current_labels' = prLabels[r_pr]
              /\ prLabels' = [prLabels EXCEPT
                                ![r_pr] = ReviewLabelsFor(prLabels[r_pr], review_results)]
              /\ rEvents' = Append(rEvents, "labels")
              /\ rpc' = "post_comment"
              /\ UNCHANGED <<issueLabels, branches, prState, r_pr, ci_status,
                             review_results, verdict_source, next_action, mergeCalled>>
         ELSE ReviewFail

\* _post_review_feedback line 174: add_pr_comment(report)
ReviewPostComment ==
    /\ rpc = "post_comment"
    /\ UNCHANGED notReview
    /\ \E ok \in BOOLEAN :
         IF ok
         THEN /\ rEvents' = Append(rEvents, "comment")
              /\ rpc' = "decide"
              /\ UNCHANGED <<platformVars, r_pr, ci_status, review_results, verdict_source,
                             current_labels, next_action, mergeCalled>>
         ELSE ReviewFail

\* lines 61-72: decide, merge when the guard holds, return.
\* merge_pull_request absorbs a failed merge and returns False.
ReviewDecide ==
    /\ rpc = "decide"
    /\ UNCHANGED notReview
    /\ LET na == _determine_next_action(review_results, ci_status)
       IN  /\ next_action' = na
           /\ IF MergeGuard(na, review_results)
              THEN /\ mergeCalled' = TRUE
                   /\ \E merged \in BOOLEAN :
                        IF merged
                        THEN /\ prState' = [prState EXCEPT ![r_pr] = "merged"]
                             /\ rEvents' = Append(rEvents, "merge")
                        ELSE UNCHANGED <<prState, rEvents>>
              ELSE UNCHANGED <<mergeCalled, prState, rEvents>>
    /\ rpc' = "returned"
    /\ UNCHANGED <<issueLabels, branches, prLabels, r_pr, ci_status,
                   review_results, verdict_source, current_labels>>

\* lines 74-77: the except handler posts the error comment and re-raises
\* (a failing add_pr_comment raises as well)
ReviewHandler ==
    /\ rpc = "handler"
    /\ UNCHANGED notReview
    /\ \E ok \in BOOLEAN :
         IF ok /\ prState[r_pr] # "none"
         THEN rEvents' = Append(rEvents, "error_comment")
         ELSE UNCHANGED rEvents
    /\ rpc' = "raised"
    /\ UNCHANGED <<platformVars, r_pr, ci_status, review_results, verdict_source,
                   current_labels, next_action, mergeCalled>>

ReviewStep ==
    \/ ReviewGetPR
    \/ ReviewGetCI
    \/ ReviewLLM
    \/ ReviewPostLabels
    \/ ReviewPostComment
    \/ ReviewDecide
    \/ ReviewHandler


(* --------- main.py process_single_pr: one review of one ChangeRequest --- *)

InitReview ==
    /\ issueLabels = [i \in Issues |-> {}]
    /\ branches = Issues
    /\ r_pr \in PRs
    /\ \E ls \in SUBSET PRLabelNames :
         /\ prLabels = [p \in PRs |-> IF p = r_pr THEN ls ELSE {}]
    /\ prState = [p \in PRs |-> IF p = r_pr THEN "open" ELSE "none"]
    /\ rpc = "get_pr"
    /\ ci_status = [success |-> FALSE]
    /\ review_results = NoVerdict
    /\ verdict_source = ""
    /\ current_labels = {}
    /\ next_action = ""
    /\ mergeCalled = FALSE
    /\ rEvents = <<>>
    /\ IssueIdle
    /\ lastUpdate = NoUpdate
    /\ FeedbackIdle
    /\ call = NoCall
    /\ max_iterations = default_max_iterations
    /\ DaemonOff

SpecReview == InitReview /\ [][ReviewStep]_vars

(* ================= CodeAgent.handle_review_feedback ==================== *)

\* line 561: the iteration cap
BudgetExceededOffByOne(count) == count >= max_iterations

BudgetExceeded(count) == count > max_iterations

\* line 559: self.iteration_count += 1, whatever ChangeRequest the call is for
CounterStays(count) == count

CounterAfterCall(count) == count + 1

notFeedback == <<issueVars, reviewVars, lastUpdate, daemonVars, call>>

\* a platform call outside any try block raised: the call ends by raising
FeedbackRaise ==
    /\ fpc' = "raised"
    /\ fTrace' = [fTrace EXCEPT !.platformError = TRUE]
    /\ UNCHANGED <<platformVars, max_iterations, iteration_count, f_pr, f_todo,
                   fret>>

\* lines 557-561: a caller hands a ChangeRequest and feedback to the agent;
\* the counter is incremented before the cap is checked. fTrace.calls is the
\* record of the calls made on this agent so far: the ChangeRequest and
\* whether the cap let the call through.
FeedbackCall ==
    /\ fpc \in {"idle", "returned", "raised"}
    /\ Len(fTrace.calls) < max_iterations + ExtraCalls
    /\ UNCHANGED notFeedback
    /\ iteration_count' = CounterAfterCall(iteration_count)
    /\ fpc' = IF BudgetExceeded(iteration_count') THEN "escalate" ELSE "announce"
    /\ \E pr \in PRs :
         /\ f_pr' = pr
         /\ fTrace' = [NoTrace EXCEPT
                         !.calls = Append(fTrace.calls,
                                          [pr |-> pr,
                                           accepted |-> ~BudgetExceeded(iteration_count')])]
    /\ f_todo' = {}
    /\ fret' = FALSE
    /\ UNCHANGED <<platformVars, max_iterations>>

\* lines 562-567: the escalation comment, then return False
FeedbackEscalate ==
    /\ fpc = "escalate"
    /\ UNCHANGED notFeedback
    /\ \E ok \in BOOLEAN :
         IF ok /\ prState[f_pr] # "none"
         THEN /\ fTrace' = [fTrace EXCEPT !.escalated = TRUE]
              /\ fret' = FALSE
              /\ fpc' = "returned"
              /\ UNCHANGED <<platformVars, max_iterations, iteration_count,
                             f_pr, f_todo>>
         ELSE FeedbackRaise

\* lines 571-574: the comment announcing the iteration
FeedbackAnnounce ==
    /\ fpc = "announce"
    /\ UNCHANGED notFeedback
    /\ \E ok \in BOOLEAN :
         IF ok /\ prState[f_pr] # "none"
         THEN /\ fTrace' = [fTrace EXCEPT !.announced = TRUE]
              /\ fpc' = "fetch"
              /\ UNCHANGED <<platformVars, max_iterations, iteration_count,
                             f_pr, f_todo, fret>>
         ELSE FeedbackRaise

\* lines 576-579: get_pull_request and get_changed_files, then the loop starts
FeedbackFetch ==
    /\ fpc = "fetch"
    /\ UNCHANGED notFeedback
    /\ \E ok \in BOOLEAN :
         IF ok
         THEN /\ \E changed_files \in SUBSET {SrcAppPy, DocsReadmeMd} :
                   /\ f_todo' = changed_files
                   /\ fTrace' = [fTrace EXCEPT !.reachedLoop = TRUE,
                                               !.changed = changed_files]
              /\ fpc' = "loop"
              /\ UNCHANGED <<platformVars, max_iterations, iteration_count,
                             f_pr, fret>>
         ELSE FeedbackRaise

\* lines 581-593, one changed file: what happens to it, given what
\* get_file_content gives ("none" when the read failed, client.py 63-64,
\* "empty" for "", "text" otherwise), what
\* _apply_feedback_to_file gives ("raises", "same", "differs") and how
\* create_or_update_file ends ("ok", "raises")
ReviseOutcomeWritesSame(content, revision, write) ==
    IF content \in {"none", "empty"} THEN "skipped"
    ELSE IF revision = "raises" THEN "caught"
    ELSE IF write = "raises" THEN "caught"
    ELSE "written"

ReviseOutcome(content, revision, write) ==
    IF content \in {"none", "empty"} THEN "skipped"
    ELSE IF revision = "raises" THEN "caught"
    ELSE IF revision = "same" THEN "kept"
    ELSE IF write = "raises" THEN "caught"
    ELSE "written"

\* lines 579-597, one changed file: unreadable or empty content is skipped, a
\* failing model call or write is caught, unchanged content is not written;
\* the loop goes on with the next file in every case
FeedbackReviseFile ==
    /\ fpc = "loop"
    /\ f_todo # {}
    /\ UNCHANGED notFeedback
    /\ \E f \in f_todo, content \in {"none", "empty", "text"},
          revision \in {"raises", "same", "differs"}, write \in {"ok", "raises"} :
         /\ f_todo' = f_todo \ {f}
         /\ fTrace' =
               [fTrace EXCEPT
                  !.written = IF ReviseOutcome(content, revision, write) = "written"
                              THEN @ \cup {f} ELSE @,
                  !.log = @ \cup {[file |-> f, content |-> content,
                                   revision |-> IF content = "text"
                                                THEN revision ELSE "",
                                   write |-> IF content = "text"
                                                /\ revision # "raises"
                                             THEN write ELSE ""]}]
    /\ UNCHANGED <<platformVars, max_iterations, iteration_count, fpc, f_pr,
                   fret>>

\* line 599
FeedbackReturn ==
    /\ fpc = "loop"
    /\ f_todo = {}
    /\ UNCHANGED notFeedback
    /\ fret' = TRUE
    /\ fpc' = "returned"
    /\ UNCHANGED <<platformVars, max_iterations, iteration_count, f_pr,
                   f_todo, fTrace>>

FeedbackStep ==
    \/ FeedbackCall
    \/ FeedbackEscalate
    \/ FeedbackAnnounce
    \/ FeedbackFetch
    \/ FeedbackReviseFile
    \/ FeedbackReturn

(* ----- a fresh CodeAgent receiving review feedback, call after call ----- *)

InitFeedback ==
    /\ issueLabels = [i \in Issues |-> {"needs-review"}]
    /\ branches = Issues
    /\ prState = [p \in PRs |-> "open"]
    /\ prLabels = [p \in PRs |-> provenance_labels]
    /\ ReviewIdle
    /\ IssueIdle
    /\ lastUpdate = NoUpdate
    /\ FeedbackIdle
    /\ call = NoCall
    /\ max_iterations \in 1..MaxBudget
    /\ DaemonOff

SpecFeedback == InitFeedback /\ [][FeedbackStep]_vars

(* =========== run_daemon and IssueProcessor.process_pending_issues ====== *)

\* every ordering of a set of item numbers
Orderings(S) ==
    {q \in [1..Cardinality(S) -> S] : \A a, b \in 1..Cardinality(S) : a # b => q[a] # q[b]}

\* issue_processor.py:73
excluding_labels_and_blocked == {"in-progress", "processed", "agent-handled", "blocked"}

excluding_labels == {"in-progress", "processed", "agent-handled"}

\* process_pending_issues lines 44-45 and 52-53: after the per-item handler
\* recorded the error, the loop goes on with the next item
AfterItemErrorAborts(idx, n) == n + 1

AfterItemError(idx, n) == idx + 1

\* process_pending_issues lines 57-59 and run_daemon lines 142-143: a listing
\* error is recorded, the call returns and the loop sleeps
AfterProcessorErrorStops == "stopped"

AfterProcessorError == "sleep"

\* process_pending_issues lines 41-43: the number of a WorkItem is remembered
\* when process_issue returned a ChangeRequest number for it
RememberNothing(processed, number, ret) == processed

RememberProcessed(processed, number, ret) ==
    IF ret # 0 THEN processed \cup {number} ELSE processed

notDaemon == <<platformVars, reviewVars, issueVars, lastUpdate, feedbackVars, call>>

\* lines 30-38: results is created and _get_new_issues lists the open
\* WorkItems: those already processed are skipped, those carrying an excluding
\* label are remembered as processed, those created within 24 hours
\* (`recent`) are selected
DaemonListIssues ==
    /\ dpc = "list_issues"
    /\ UNCHANGED notDaemon
    /\ attempts' = NoAttempts
    /\ issue_idx' = 1
    /\ pr_idx' = 1
    /\ pending_prs' = <<>>
    /\ \E ok \in BOOLEAN :
         IF ok
         THEN /\ \E recent \in SUBSET Issues :
                   LET fresh == Issues \ processed_issues
                       excluded == {i \in fresh : issueLabels[i] \cap excluding_labels # {}}
                   IN  /\ Cardinality((fresh \ excluded) \cap recent) <= MaxRuns - runs
                       /\ processed_issues' = processed_issues \cup excluded
                       /\ new_issues' \in Orderings((fresh \ excluded) \cap recent)
              /\ errors' = {}
              /\ dpc' = "issues_loop"
         ELSE /\ errors' = {<<"Processor", 0>>}
              /\ new_issues' = <<>>
              /\ dpc' = AfterProcessorError
              /\ UNCHANGED processed_issues
    /\ UNCHANGED <<interrupted, runs, reviewed>>

\* line 40: code_agent.process_issue(issue.number) is entered
DaemonStartIssue ==
    /\ dpc = "issues_loop"
    /\ issue_idx <= Len(new_issues)
    /\ dpc' = "in_issue"
    /\ attempts' = [attempts EXCEPT !["Issue"][new_issues[issue_idx]] = @ + 1]
    /\ runs' = runs + 1
    /\ ipc' = "get_issue"
    /\ issue_number' = new_issues[issue_idx]
    /\ analysis' = NoAnalysis
    /\ plan_files' = <<>>
    /\ file_idx' = 1
    /\ quality_report' = NoReport
    /\ pr_number' = 0
    /\ iret' = 0
    /\ stepsDone' = <<>>
    /\ failedStep' = ""
    /\ iComments' = {}
    /\ files_written' = {}
    /\ file_log' = <<>>
    /\ UNCHANGED <<platformVars, reviewVars, lastUpdate, feedbackVars, call,
                   processed_issues, new_issues, issue_idx, pending_prs,
                   pr_idx, errors, interrupted, reviewed>>

\* lines 41-45: process_issue returned or raised; its locals are gone
DaemonEndIssue ==
    /\ dpc = "in_issue"
    /\ ipc \in {"returned", "raised"}
    /\ IF ipc = "returned"
       THEN /\ processed_issues' =
                 RememberProcessed(processed_issues, issue_number, iret)
            /\ issue_idx' = issue_idx + 1
            /\ UNCHANGED errors
       ELSE /\ errors' = errors \cup {<<"Issue", issue_number>>}
            /\ issue_idx' = AfterItemError(issue_idx, Len(new_issues))
            /\ UNCHANGED processed_issues
    /\ dpc' = "issues_loop"
    /\ ipc' = "idle"
    /\ issue_number' = 0
    /\ analysis' = NoAnalysis
    /\ plan_files' = <<>>
    /\ file_idx' = 1
    /\ quality_report' = NoReport
    /\ pr_number' = 0
    /\ iret' = 0
    /\ stepsDone' = <<>>
    /\ failedStep' = ""
    /\ iComments' = {}
    /\ files_written' = {}
    /\ file_log' = <<>>
    /\ lastUpdate' = NoUpdate
    /\ UNCHANGED <<platformVars, reviewVars, feedbackVars, call,
                   new_issues, pending_prs, pr_idx, attempts, interrupted, runs, reviewed>>

\* _get_pending_prs lines 93-113: the open ChangeRequests without the
\* approved label that were updated within the hour (`recent`)
PendingWithApproved(recent) ==
    {p \in PRs : prState[p] = "open" /\ p \in recent}

_get_pending_prs(recent) ==
    {p \in PRs : /\ prState[p] = "open"
                 /\ "approved" \notin prLabels[p]
                 /\ p \in recent}

\* line 47: _get_pending_prs is called after the WorkItem loop
DaemonListPRs ==
    /\ dpc = "issues_loop"
    /\ issue_idx > Len(new_issues)
    /\ UNCHANGED notDaemon
    /\ \E ok \in BOOLEAN :
         IF ok
         THEN /\ \E recent \in SUBSET PRs :
                   LET pending == _get_pending_prs(recent)
                   IN  /\ Cardinality(pending) <= MaxRuns - runs
                       /\ pending_prs' \in Orderings(pending)
              /\ dpc' = "prs_loop"
              /\ UNCHANGED errors
         ELSE /\ errors' = errors \cup {<<"Processor", 0>>}
              /\ dpc' = AfterProcessorError
              /\ UNCHANGED pending_prs
    /\ UNCHANGED <<processed_issues, new_issues, issue_idx, pr_idx, attempts,
                   interrupted, runs, reviewed>>

\* line 50: reviewer_agent.review_pull_request(pr.number) is entered
DaemonStartReview ==
    /\ dpc = "prs_loop"
    /\ pr_idx <= Len(pending_prs)
    /\ dpc' = "in_review"
    /\ attempts' = [attempts EXCEPT !["PR"][pending_prs[pr_idx]] = @ + 1]
    /\ runs' = runs + 1
    /\ rpc' = "get_pr"
    /\ r_pr' = pending_prs[pr_idx]
    /\ ci_status' = [success |-> FALSE]
    /\ review_results' = NoVerdict
    /\ verdict_source' = ""
    /\ current_labels' = {}
    /\ next_action' = ""
    /\ mergeCalled' = FALSE
    /\ rEvents' = <<>>
    /\ UNCHANGED <<platformVars, issueVars, lastUpdate, feedbackVars, call,
                   processed_issues, new_issues, issue_idx, pending_prs,
                   pr_idx, errors, interrupted, reviewed>>

\* lines 51-53: review_pull_request returned or raised; its locals are gone.
\* The processor keeps no record of the review (lines 22-26 hold only
\* processed_issues); `reviewed` is the record an observer would keep.
DaemonEndReview ==
    /\ dpc = "in_review"
    /\ rpc \in {"returned", "raised"}
    /\ IF rpc = "returned"
       THEN /\ pr_idx' = pr_idx + 1
            /\ UNCHANGED errors
       ELSE /\ errors' = errors \cup {<<"PR", r_pr>>}
            /\ pr_idx' = AfterItemError(pr_idx, Len(pending_prs))
    /\ dpc' = "prs_loop"
    /\ rpc' = "idle"
    /\ r_pr' = 0
    /\ ci_status' = [success |-> FALSE]
    /\ review_results' = NoVerdict
    /\ verdict_source' = ""
    /\ current_labels' = {}
    /\ next_action' = ""
    /\ mergeCalled' = FALSE
    /\ rEvents' = <<>>
    /\ reviewed' = IF rpc = "returned" /\ next_action # "merge"
                   THEN reviewed \cup {r_pr} ELSE reviewed
    /\ UNCHANGED <<platformVars, issueVars, lastUpdate, feedbackVars, call,
                   processed_issues, new_issues, issue_idx, pending_prs,
                   attempts, interrupted, runs>>

\* lines 55-61 and run_daemon line 143: the cycle is over, the loop sleeps
DaemonCycleDone ==
    /\ dpc = "prs_loop"
    /\ pr_idx > Len(pending_prs)
    /\ dpc' = "sleep"
    /\ UNCHANGED <<notDaemon, processed_issues, new_issues, issue_idx,
                   pending_prs, pr_idx, errors, attempts, interrupted, runs, reviewed>>

\* run_daemon lines 140-143 (and 147 after an error): time.sleep returns and
\* the loop calls process_pending_issues again; the lists of the finished
\* call are gone, its error list is replaced when the new call creates its
\* own `results`
DaemonWake ==
    /\ dpc = "sleep"
    /\ dpc' = "list_issues"
    /\ new_issues' = <<>>
    /\ issue_idx' = 1
    /\ pending_prs' = <<>>
    /\ pr_idx' = 1
    /\ attempts' = NoAttempts
    /\ UNCHANGED <<notDaemon, processed_issues, errors, interrupted, runs, reviewed>>

\* the helper calls whose bare `except:` is being executed around a platform
\* call: _get_file_context (line 305), _get_project_context (line 333),
\* _get_test_file_path (line 395). They run while a valid candidate file is
\* implemented.
InHelperCall ==
    /\ dpc = "in_issue"
    /\ ipc = "implement"
    /\ file_idx <= Len(plan_files)
    /\ validate_file_path(plan_files[file_idx])

\* a KeyboardInterrupt delivered while the daemon sleeps, lists or runs a
\* step: no `except Exception` catches it, run_daemon line 144 re-raises it
\* and line 149 ends the loop; what the platform holds stays, the locals of
\* the calls in progress are gone and the observation of the process ends
Interrupt ==
    /\ dpc \notin {"off", "stopped"}
    /\ interrupted' = TRUE
    /\ dpc' = "stopped"
    /\ ipc' = "idle"
    /\ issue_number' = 0
    /\ analysis' = NoAnalysis
    /\ plan_files' = <<>>
    /\ file_idx' = 1
    /\ quality_report' = NoReport
    /\ pr_number' = 0
    /\ iret' = 0
    /\ stepsDone' = <<>>
    /\ failedStep' = ""
    /\ iComments' = {}
    /\ files_written' = {}
    /\ file_log' = <<>>
    /\ lastUpdate' = NoUpdate
    /\ rpc' = "idle"
    /\ r_pr' = 0
    /\ ci_status' = [success |-> FALSE]
    /\ review_results' = NoVerdict
    /\ verdict_source' = ""
    /\ current_labels' = {}
    /\ next_action' = ""
    /\ mergeCalled' = FALSE
    /\ rEvents' = <<>>
    /\ new_issues' = <<>>
    /\ issue_idx' = 1
    /\ pending_prs' = <<>>
    /\ pr_idx' = 1
    /\ errors' = {}
    /\ attempts' = NoAttempts
    /\ reviewed' = {}
    /\ UNCHANGED <<platformVars, feedbackVars, call, processed_issues, runs>>

\* a KeyboardInterrupt delivered inside one of the helper calls: the bare
\* `except: pass` catches it and the run goes on
InterruptInHelper ==
    /\ InHelperCall
    /\ interrupted' = TRUE
    /\ UNCHANGED <<notDaemon, dpc, processed_issues, new_issues, issue_idx,
                   pending_prs, pr_idx, errors, attempts, runs, reviewed>>

DaemonStep ==
    \/ DaemonListIssues
    \/ DaemonStartIssue
    \/ DaemonEndIssue
    \/ DaemonListPRs
    \/ DaemonStartReview
    \/ DaemonEndReview
    \/ DaemonCycleDone
    \/ DaemonWake

\* run_daemon on a repository with open WorkItems and no ChangeRequest yet
Init ==
    /\ issueLabels = [i \in Issues |-> {}]
    /\ branches = {}
    /\ prState = [p \in PRs |-> "none"]
    /\ prLabels = [p \in PRs |-> {}]
    /\ ReviewIdle
    /\ IssueIdle
    /\ lastUpdate = NoUpdate
    /\ FeedbackIdle
    /\ call = NoCall
    /\ max_iterations = default_max_iterations
    /\ dpc = "list_issues"
    /\ processed_issues = {}
    /\ new_issues = <<>>
    /\ issue_idx = 1
    /\ pending_prs = <<>>
    /\ pr_idx = 1
    /\ errors = {}
    /\ attempts = NoAttempts
    /\ interrupted = FALSE
    /\ runs = 0
    /\ reviewed = {}

\* the steps the program takes by itself
Run ==
    \/ DaemonStep
    \/ IssueStep
    \/ ReviewStep

Next ==
    \/ Run
    \/ Interrupt
    \/ InterruptInHelper

Spec == Init /\ [][Next]_vars

\* every call the daemon blocks in returns or raises, and the sleep ends
FairSpec == Spec /\ WF_vars(Run)

\* run_daemon started on a repository an earlier process has worked on:
\* WorkItem 1 is labelled bug and needs-review and its ChangeRequest 1 is
\* open with the provenance labels on branch 1; the other WorkItems are new. A new
\* process starts with an empty processed_issues (issue_processor.py 22-26).
InitResume ==
    /\ issueLabels = [i \in Issues |-> IF i = 1 THEN {"bug", "needs-review"} ELSE {}]
    /\ branches = {1}
    /\ prState = [p \in PRs |-> IF p = 1 THEN "open" ELSE "none"]
    /\ prLabels = [p \in PRs |-> IF p = 1 THEN provenance_labels ELSE {}]
    /\ ReviewIdle
    /\ IssueIdle
    /\ lastUpdate = NoUpdate
    /\ FeedbackIdle
    /\ call = NoCall
    /\ max_iterations = default_max_iterations
    /\ dpc = "list_issues"
    /\ processed_issues = {}
    /\ new_issues = <<>>
    /\ issue_idx = 1
    /\ pending_prs = <<>>
    /\ pr_idx = 1
    /\ errors = {}
    /\ attempts = NoAttempts
    /\ interrupted = FALSE
    /\ runs = 0
    /\ reviewed = {}

SpecResume == InitResume /\ [][Next]_vars

(* ============ pure functions, applied to drawn inputs ================== *)

\* longest model response, in tokens, the interpreter is tried on
MaxText == 4
\* longest path, in characters, of the exhaustive validate_file_path inputs
MaxPath == 4

notCall == <<platformVars, reviewVars, issueVars, lastUpdate, feedbackVars,
             daemonVars>>

(* ---- the response interpreter of _perform_llm_review and _analyze_issue *)
\* A response is a sequence of tokens: the two braces, "s" for the member
\* "status": "approved", "m" for the member "meets_requirements": true, and
\* "x" for a word of prose.
Tokens == {"{", "}", "s", "m", "x"}
Texts == UNION {[1..n -> Tokens] : n \in 0..MaxText}

\* str.find, 1-based; 0 when the token does not occur
FirstIndex(s, ch) ==
    LET hits == {k \in 1..Len(s) : s[k] = ch}
    IN  IF hits = {} THEN 0 ELSE CHOOSE k \in hits : \A j \in hits : k <= j

\* re.search(r'\{.*\}', response, re.DOTALL).group(0): the match starts at
\* the first opening brace that has a closing brace after it and, .* being
\* greedy and DOTALL, runs to the last closing brace; <<>> when there is none
json_match(response) ==
    LET i == FirstIndex(response, "{")
        j == LastIndex(response, "}")
    IN  IF i > 0 /\ j > i THEN SubSeq(response, i, j) ELSE <<>>

\* json.loads accepts the text: an object is a pair of braces around members
JSONDecodes(s) ==
    /\ Len(s) >= 2
    /\ s[1] = "{"
    /\ s[Len(s)] = "}"
    /\ \A k \in 2..(Len(s) - 1) : s[k] \in {"s", "m"}

\* json.loads: the dict of the members, a repeated key kept once
json_loads(s) == {s[k] : k \in 2..(Len(s) - 1)}

\* reviewer_agent.py 113-121 and code_agent.py 102-116: the decoded dict when
\* a span is matched and decodes, the component's fallback otherwise
interpret_response(response) ==
    LET span == json_match(response)
    IN  IF span # <<>> /\ JSONDecodes(span)
        THEN [parsed |-> TRUE, data |-> json_loads(span)]
        ELSE [parsed |-> FALSE, data |-> {}]

ApplyInterpreter ==
    /\ call = NoCall
    /\ \E response \in Texts :
         call' = [fn |-> "interpret_response", arg |-> response,
                  result |-> interpret_response(response)]
    /\ UNCHANGED notCall

(* ---------------------- validate_file_path ---------------------------- *)
EtcPasswd == <<"/", "e", "t", "c", "/", "p", "a", "s", "s", "w", "d">>
ADollarBPy == <<"a", "$", "b", ".", "p", "y">>

\* the characters the exhaustive inputs are built from
PathAlphabet == {".", "/", "a", "p", "y", "$", ";"}

PathInputs ==
    {SrcAppPy, DocsReadmeMd, SecretPy, EtcPasswd, ADollarBPy}
      \cup UNION {[1..n -> PathAlphabet] : n \in 0..MaxPath}

ApplyValidate ==
    /\ call = NoCall
    /\ \E file_path \in PathInputs :
         call' = [fn |-> "validate_file_path", arg |-> file_path,
                  result |-> validate_file_path(file_path)]
    /\ UNCHANGED notCall

(* --------- the branch name of _create_implementation_plan -------------- *)
\* most repetitions of a unit in a title
MaxRepeat == 26
\* most repetitions of the unit of a configured branch prefix
MaxPrefixRepeat == 20

\* code_agent.py:215, the slice [:50] of the title slug
clean_title_limit == 50
\* code_agent.py:216, the slice [:100] of the branch name
branch_name_limit == 100

\* u repeated n times
Rep(u, n) == [k \in 1..(n * Len(u)) |-> u[((k - 1) % Len(u)) + 1]]

\* s[:n]
Take(s, n) == SubSeq(s, 1, IF Len(s) < n THEN Len(s) ELSE n)

\* titles: a unit of letters, blanks, punctuation and dashes, repeated
TitleUnits == { <<"a", "P">>, <<"a", " ">>, <<"-", "!">>, <<"y">> }
Titles == {Rep(u, n) : u \in TitleUnits, n \in 0..MaxRepeat}

\* utils/config.py 37-40: the default prefix, and configured prefixes of
\* every length up to the ceiling of the name and beyond no bound of config.py
AgentPrefix == <<"a", "g", "e", "n", "t", "/">>
Prefixes ==
    {AgentPrefix}
      \cup {Rep(<<"t", "e", "a", "m", "/">>, k) : k \in 0..MaxPrefixRepeat}

\* the characters [a-zA-Z0-9-] of line 214 that occur in the model
SlugChars ==
    {"a", "b", "c", "d", "e", "f", "g", "h", "i", "j", "k", "l", "m", "n", "o",
     "p", "q", "r", "s", "t", "u", "v", "w", "x", "y", "z", "P", "Y", "M", "D",
     "0", "1", "2", "3", "4", "5", "6", "7", "8", "9", "-"}

\* re.sub(r'[^a-zA-Z0-9-]', '-', s)
SubNonSlug(s) == [k \in 1..Len(s) |-> IF s[k] \in SlugChars THEN s[k] ELSE "-"]

\* re.sub(r'-+', '-', s)
RECURSIVE CollapseDashes(_)
CollapseDashes(s) ==
    IF Len(s) <= 1 THEN s
    ELSE IF s[1] = "-" /\ s[2] = "-" THEN CollapseDashes(Tail(s))
    ELSE <<s[1]>> \o CollapseDashes(Tail(s))

\* s.strip('-')
StripDashes(s) ==
    LET solid == {k \in 1..Len(s) : s[k] # "-"}
    IN  IF solid = {} THEN <<>>
        ELSE SubSeq(s, CHOOSE k \in solid : \A j \in solid : k <= j,
                       CHOOSE k \in solid : \A j \in solid : j <= k)

\* str(n) for a natural number
DecimalDigits == <<"0", "1", "2", "3", "4", "5", "6", "7", "8", "9">>
RECURSIVE Str(_)
Str(n) ==
    IF n < 10 THEN <<DecimalDigits[n + 1]>>
    ELSE Str(n \div 10) \o <<DecimalDigits[(n % 10) + 1]>>

\* lines 214-215: clean_title
clean_title(issue_title) ==
    Take(StripDashes(CollapseDashes(SubNonSlug(Lower(issue_title)))),
         clean_title_limit)

\* line 216: branch_name
branch_name_uncut(branch_prefix, number, issue_title) ==
    branch_prefix \o <<"i", "s", "s", "u", "e", "-">> \o Str(number)
        \o <<"-">> \o clean_title(issue_title)

branch_name(branch_prefix, number, issue_title) ==
    Take(branch_prefix \o <<"i", "s", "s", "u", "e", "-">> \o Str(number)
           \o <<"-">> \o clean_title(issue_title),
         branch_name_limit)

\* lines 218-223: the plan returned
_create_implementation_plan(branch_prefix, number, issue_title, an) ==
    [issue_number |-> number,
     branch_name |-> branch_name(branch_prefix, number, issue_title),
     files_to_modify |-> an.files]

\* analyses a plan is derived from: the degraded one and one naming a file
PlanAnalyses ==
    {_analyze_issue("no_span", <<>>, <<>>),
     _analyze_issue("object", <<SrcAppPy>>, <<>>)}

ApplyPlan ==
    /\ call = NoCall
    /\ \E branch_prefix \in Prefixes, number \in Issues,
          issue_title \in Titles, an \in PlanAnalyses :
         call' = [fn |-> "_create_implementation_plan",
                  arg |-> [branch_prefix |-> branch_prefix,
                           issue_number |-> number,
                           issue_title |-> issue_title, analysis |-> an],
                  result |-> _create_implementation_plan(
                                 branch_prefix, number, issue_title, an)]
    /\ UNCHANGED notCall

\* the plan is derived once more for the same WorkItem and title, under the
\* same prefix, from any analysis
ApplyPlanAgain ==
    /\ call.fn \in {"_create_implementation_plan", "plan_again"}
    /\ \E an \in PlanAnalyses :
         call' = [fn |-> "plan_again",
                  arg |-> [call.arg EXCEPT !.analysis = an],
                  result |-> _create_implementation_plan(
                                 call.arg.branch_prefix, call.arg.issue_number,
                                 call.arg.issue_title, an)]
    /\ UNCHANGED notCall

(* ------------- the file relevance resolver ---------------------------- *)
\* most entries of a repository tree
MaxTree == 102

\* code_agent.py:175, the slice [:50] of the discovered files
discovered_files_limit == 50

\* requirement texts, as _analyze_issue lowers them (line 107)
ConfigRequirement ==
    <<"a", "d", "d", " ", "a", " ", "c", "o", "n", "f", "i", "g", "u", "r", "a", "t", "i", "o",
        "n", " ", "l", "o", "a", "d", "e", "r", " ", "i", "n", " ", "y", "a", "m", "l">>
RefactorRequirement == <<"r", "e", "f", "a", "c", "t", "o", "r", " ", "t", "h", "e", " ", "c",
    "l", "i", "e", "n", "t">>
TestRequirement ==
    <<"a", "d", "d", " ", "a", " ", "t", "e", "s", "t">>
Requirements == {ConfigRequirement, RefactorRequirement, TestRequirement}

\* _determine_file_patterns lines 181-201
_determine_file_patterns(requirement) ==
    LET mentions(keywords) == \E keyword \in keywords : Contains(requirement, keyword)
        patterns ==
            (IF mentions({<<"p", "y", "t", "h", "o", "n">>, <<".", "p", "y">>, <<"p", "y", " ",
                "f", "i", "l", "e">>})
             THEN <<<<"*", ".", "p", "y">>>> ELSE <<>>)
            \o (IF mentions({<<"d", "o", "c", "u", "m", "e", "n", "t", "a", "t", "i", "o",
                "n">>, <<"r", "e", "a", "d", "m", "e">>, <<".", "m", "d">>, <<"m", "a", "r",
                "k", "d", "o", "w", "n">>})
                THEN <<<<"*", ".", "m", "d">>>> ELSE <<>>)
            \o (IF mentions({<<"t", "e", "s", "t">>, <<"t", "e", "s", "t", "s">>, <<"t", "e",
                "s", "t", "i", "n", "g">>})
                THEN <<<<"*", "t", "e", "s", "t", "*", ".", "p", "y">>>> ELSE <<>>)
            \o (IF mentions({<<"c", "o", "n", "f", "i", "g">>, <<"c", "o", "n", "f", "i", "g",
                "u", "r", "a", "t", "i", "o", "n">>, <<".", "j", "s", "o", "n">>, <<".", "y",
                "a", "m", "l">>, <<".", "y", "m", "l">>})
                THEN <<<<"*", ".", "j", "s", "o", "n">>,
                       <<"*", ".", "y", "a", "m", "l">>,
                       <<"*", ".", "y", "m", "l">>>>
                ELSE <<>>)
    IN  IF patterns = <<>> THEN <<<<"*", ".", "p", "y">>>> ELSE patterns

\* _pattern_matches lines 203-208; pattern[1:] is Tail(pattern) and
\* pattern[1:-1] the pattern without its first and last character
_pattern_matches(pattern, file_path) ==
    IF StartsWith(pattern, <<"*">>)
    THEN \/ EndsWith(file_path, Tail(pattern))
         \/ LET inner == SubSeq(pattern, 2, Len(pattern) - 1)
            IN  IF Contains(inner, <<"*">>) THEN Contains(file_path, inner)
                ELSE FALSE
    ELSE file_path = pattern

\* lines 169-172: the excluded substrings
excluded_substrings ==
    {<<"_", "_", "p", "y", "c", "a", "c", "h", "e", "_", "_">>, <<"n", "o", "d", "e", "_", "m",
        "o", "d", "u", "l", "e", "s", "/">>, <<"v", "e", "n", "v", "/">>, <<".", "v", "e", "n",
        "v", "/">>, <<"e", "n", "v", "/">>, <<"d", "i", "s", "t", "/">>, <<"b", "u", "i", "l",
        "d", "/">>, <<".", "g", "i", "t">>}

\* _discover_relevant_files lines 158-179: no listing, an empty listing or
\* any error give []; otherwise the matching entries that hold no excluded
\* substring, in tree order, cut to the limit
DiscoverUncapped(requirement, tree_ok, tree) ==
    IF ~tree_ok \/ tree = <<>> THEN <<>>
    ELSE LET patterns == _determine_file_patterns(requirement)
             kept(path) ==
                 /\ \E k \in 1..Len(patterns) : _pattern_matches(patterns[k], path)
                 /\ ~\E exclude \in excluded_substrings : Contains(path, exclude)
         IN  SelectSeq(tree, kept)

_discover_relevant_files(requirement, tree_ok, tree) ==
    IF ~tree_ok \/ tree = <<>> THEN <<>>
    ELSE LET patterns == _determine_file_patterns(requirement)
             kept(path) ==
                 /\ \E k \in 1..Len(patterns) : _pattern_matches(patterns[k], path)
                 /\ ~\E exclude \in excluded_substrings : Contains(path, exclude)
         IN  Take(SelectSeq(tree, kept), discovered_files_limit)

\* entries of a tree: a name under a numbered directory
TreeNames ==
    {<<"a", ".", "y", "a", "m", "l">>, <<"c", ".", "j", "s", "o", "n">>, <<"d", ".", "p",
        "y">>, <<"n", "o", "d", "e", "_", "m", "o", "d", "u", "l", "e", "s", "/", "e", ".",
        "j", "s", "o", "n">>, <<".", "g", "i", "t", "h", "u", "b", "/", "f", ".", "y", "m",
        "l">>, <<"t", "e", "s", "t", "s", "/", "t", "e", "s", "t", "_", "a", "p", "p", ".", "p", "y">>}
NameLists == UNION {[1..n -> TreeNames] : n \in 1..2}
TreeOf(names, n) ==
    [k \in 1..n |-> Str(k) \o <<"/">> \o names[((k - 1) % Len(names)) + 1]]
Trees == {TreeOf(names, n) : names \in NameLists, n \in 0..MaxTree}

ApplyResolver ==
    /\ call = NoCall
    /\ \E requirement \in Requirements, tree_ok \in BOOLEAN :
         \E tree \in IF tree_ok THEN Trees ELSE {<<>>} :
            call' = [fn |-> "_discover_relevant_files",
                     arg |-> [requirement |-> requirement, tree_ok |-> tree_ok,
                              tree |-> tree],
                     result |-> _discover_relevant_files(requirement, tree_ok, tree)]
    /\ UNCHANGED notCall

(* ------------- pattern derivation from requirement words -------------- *)
\* most words of a requirement text
MaxWords == 2

\* words of lowered requirement texts: keywords of lines 185-198, their
\* dotless forms, and words that are no keyword
RequirementWords ==
    {<<"p", "a", "r", "s", "e">>,
     <<"t", "h", "e">>,
     <<"y", "a", "m", "l">>,
     <<"j", "s", "o", "n">>,
     <<"c", "o", "n", "f", "i", "g">>,
     <<"t", "e", "s", "t">>,
     <<"r", "e", "a", "d", "m", "e">>,
     <<"p", "y", "t", "h", "o", "n">>,
     <<".", "y", "m", "l">>}

\* the words joined by single blanks
RECURSIVE JoinWords(_)
JoinWords(ws) ==
    IF Len(ws) = 0 THEN <<>>
    ELSE IF Len(ws) = 1 THEN ws[1]
    ELSE ws[1] \o <<" ">> \o JoinWords(Tail(ws))

RequirementTexts ==
    {JoinWords(ws) : ws \in UNION {[1..n -> RequirementWords] : n \in 1..MaxWords}}

ApplyPatterns ==
    /\ call = NoCall
    /\ \E requirement \in RequirementTexts :
         call' = [fn |-> "_determine_file_patterns",
                  arg |-> [requirement |-> requirement],
                  result |-> _determine_file_patterns(requirement)]
    /\ UNCHANGED notCall

(* ------------- the aggregated CI flag --------------------------------- *)
ApplyCIStatus ==
    /\ call = NoCall
    /\ \E hasCommits \in BOOLEAN, statuses \in StatusLists :
         call' = [fn |-> "get_ci_status",
                  arg |-> [hasCommits |-> hasCommits, statuses |-> statuses],
                  result |-> get_ci_status(hasCommits, statuses)]
    /\ UNCHANGED notCall

(* ------------------- the pure functions, one call each ----------------- *)
InitPure ==
    /\ issueLabels = [i \in Issues |-> {}]
    /\ branches = {}
    /\ prState = [p \in PRs |-> "none"]
    /\ prLabels = [p \in PRs |-> {}]
    /\ ReviewIdle
    /\ IssueIdle
    /\ lastUpdate = NoUpdate
    /\ FeedbackIdle
    /\ call = NoCall
    /\ max_iterations = default_max_iterations
    /\ DaemonOff

PureStep ==
    \/ ApplyInterpreter
    \/ ApplyValidate
    \/ ApplyPlan
    \/ ApplyPlanAgain
    \/ ApplyResolver
    \/ ApplyPatterns
    \/ ApplyCIStatus

SpecPure == InitPure /\ [][PureStep]_vars

(* ============================== claims ================================= *)

\* C1: for boolean meets_requirements, a status among approved,
\* changes_requested, needs_work and boolean ci_success, the action a finished
\* review decided on is merge when all three hold, fix_ci whenever CI is not
\* successful, request_changes when CI is successful and the review is not
\* (meets_requirements and approved), and wait in every remaining case.
C1_DecisionTable ==
    (/\ rpc = "returned"
     /\ review_results.has_meets
     /\ review_results.has_status
     /\ review_results.status \in {"approved", "changes_requested", "needs_work"})
    => LET m == review_results.meets_requirements
           s == review_results.status
           c == ci_status.success
       IN  /\ (m /\ s = "approved" /\ c) => next_action = "merge"
           /\ ~c => next_action = "fix_ci"
           /\ (c /\ (~m \/ s # "approved")) => next_action = "request_changes"
           /\ (~(m /\ s = "approved" /\ c) /\ c /\ ~(~m \/ s # "approved"))
                 => next_action = "wait"

C1_Witness ==
    /\ rpc = "returned"
    /\ review_results = Verdict(TRUE, "changes_requested", TRUE, TRUE)
    /\ ci_status.success
    /\ next_action = "request_changes"

\* C2: a merge call is made in a review run only if that run's verdict has
\* meets_requirements = true and status = approved and the CI status fetched
\* in the run was successful; a run that ends with another action made no
\* merge call and left the ChangeRequest open.
C2_MergeOnlyWhenAllHold ==
    /\ mergeCalled =>
          /\ DictGet(review_results.has_meets, review_results.meets_requirements, FALSE)
          /\ review_results.has_status /\ review_results.status = "approved"
          /\ ci_status.success
    /\ (rpc = "returned" /\ next_action # "merge") =>
          (~mergeCalled /\ prState[r_pr] = "open")
    /\ prState[r_pr] = "merged" => mergeCalled

C2_Witness ==
    /\ rpc = "returned"
    /\ mergeCalled
    /\ prState[r_pr] = "merged"
    /\ next_action = "merge"

\* C4: once _post_review_feedback has replaced the labels, the ChangeRequest
\* carries exactly one label of {approved, changes-requested, needs-work},
\* whatever the verdict's status (missing and unknown included) and however
\* many labels of the group it carried before; and the report comment is
\* posted only after the labels were replaced.
C4_OneOutcomeLabel ==
    /\ rpc \in {"post_comment", "decide", "returned"}
          => Cardinality(prLabels[r_pr] \cap review_labels) = 1
    /\ \A k \in 1..Len(rEvents) :
          rEvents[k] = "comment" => (k > 1 /\ rEvents[k - 1] = "labels")

C4_Witness ==
    /\ rpc = "decide"
    /\ Cardinality(current_labels \cap review_labels) >= 2
    /\ ~review_results.has_status
    /\ rEvents = <<"labels", "comment">>

\* C3: a completed update_issue_status(issue, s), s one of in-progress,
\* needs-review, blocked, ready, leaves exactly one label of the status group
\* on the issue, namely s, however many it carried before; and no call, over
\* any sequence of calls, takes an issue with at most one status label to
\* one with two.
C3_OneStatusLabel ==
    /\ [](lastUpdate.outcome = "ok" =>
             issueLabels[lastUpdate.issue] \cap status_labels = {lastUpdate.status})
    /\ [][\A i \in Issues :
             Cardinality(issueLabels[i] \cap status_labels) <= 1
                => Cardinality(issueLabels'[i] \cap status_labels) <= 1]_vars

C3_Witness ==
    /\ lastUpdate.outcome = "ok"
    /\ lastUpdate.status = "ready"
    /\ Cardinality(lastUpdate.before \cap status_labels) >= 2
    /\ issueLabels[lastUpdate.issue] \cap status_labels = {"ready"}

\* C6: when a step of process_issue raised, the run ends with the WorkItem
\* labelled blocked, the error comment posted on it, and process_issue
\* returning None instead of raising.
C6_ErrorEndsBlocked ==
    (ipc \in {"returned", "raised"} /\ failedStep # "")
    => /\ ipc = "returned"
       /\ iret = 0
       /\ issueLabels[issue_number] \cap status_labels = {"blocked"}
       /\ "error" \in iComments

\* C7: the steps of a process_issue run complete in program order with none
\* skipped or repeated; analysis starts with the WorkItem labelled
\* in-progress; files are written only on a created working branch; the
\* ChangeRequest is opened after the implementation and quality-check steps;
\* a ChangeRequest number is returned only with the WorkItem labelled
\* needs-review and the comment naming the ChangeRequest posted.
C7_StepOrder ==
    /\ stepsDone = SubSeq(StepOrder, 1, Len(stepsDone))
    /\ ipc = "analyze" =>
          issueLabels[issue_number] \cap status_labels = {"in-progress"}
    /\ files_written # {} =>
          (issue_number \in branches /\ Len(stepsDone) >= StepIndex("branch"))
    /\ \A p \in PRs :
          prState[p] # "none" =>
             (p = issue_number /\ Len(stepsDone) >= StepIndex("quality"))
    /\ (ipc = "returned" /\ iret # 0) =>
          /\ stepsDone = StepOrder
          /\ iret = pr_number
          /\ prState[iret] = "open"
          /\ issueLabels[issue_number] \cap status_labels = {"needs-review"}
          /\ "pr-created" \in iComments

C7_Witness ==
    /\ ipc = "returned"
    /\ iret # 0
    /\ SrcAppPy \in files_written
    /\ "needs-review" \in issueLabels[issue_number]

\* C5: for a fresh CodeAgent and N = max_iterations, a call of
\* handle_review_feedback whose platform calls succeed proceeds when it is one
\* of the first N (it reaches the per-file loop and returns True, with no
\* escalation) and is refused when it is a later one (it returns False with
\* the escalation comment posted and never reaches the loop); a call ends by
\* an exception only on a platform error.
C5_IterationCap ==
    /\ fpc = "returned" =>
          IF iteration_count <= max_iterations
          THEN fret /\ fTrace.reachedLoop /\ fTrace.announced /\ ~fTrace.escalated
          ELSE ~fret /\ fTrace.escalated /\ ~fTrace.reachedLoop
                     /\ fTrace.written = {}
    /\ fpc = "raised" => fTrace.platformError
    /\ fTrace.escalated => iteration_count > max_iterations
    /\ fTrace.reachedLoop => iteration_count <= max_iterations

C5_Witness ==
    /\ iteration_count = max_iterations + 1
    /\ fpc = "returned"
    /\ ~fret
    /\ fTrace.escalated

C9_DaemonKeepsPolling ==
    /\ [](dpc = "stopped" => interrupted)
    /\ []<>(dpc = "list_issues" \/ interrupted)

C9_Witness ==
    /\ dpc = "list_issues"
    /\ ~interrupted
    /\ <<"Processor", 0>> \in errors
    /\ \E n \in Issues : <<"Issue", n>> \in errors

\* C10: an interrupt delivered at any point of a daemon run ends the daemon
\* loop: no state has an interrupt delivered and the loop still running.
C10_InterruptEndsDaemon ==
    interrupted => dpc = "stopped"

\* C11: when the analysis response holds no {...} span or a span that does
\* not decode, _analyze_issue does not raise: the analyze step completes with
\* the degraded analysis (summary = the WorkItem title, no files, complexity
\* medium) and control goes on to the plan step; with that analysis none of
\* the plan, implement and quality steps raises.
C11_ParseFailureDegrades ==
    /\ [](analysis.response \in {"no_span", "undecodable"} =>
            /\ analysis.degraded
            /\ analysis.files = <<>>
            /\ analysis.summary = "issue.title"
            /\ analysis.complexity = "medium"
            /\ failedStep \notin {"analyze", "plan", "implement", "quality"}
            /\ ipc \in {"plan", "branch", "set_branch_status", "implement",
                        "quality", "handler"})
    /\ [][(ipc = "analyze" /\ analysis'.response \in {"no_span", "undecodable"})
            => (ipc' = "plan" /\ stepsDone' = Append(stepsDone, "analyze"))]_vars
    /\ [][(analysis.response \in {"no_span", "undecodable"}
             /\ ipc \in {"plan", "implement", "quality"})
            => ipc' # "handler"]_vars

C11_Witness ==
    /\ ipc = "quality"
    /\ analysis.response = "undecodable"
    /\ analysis.degraded
    /\ plan_files = <<>>
    /\ failedStep = ""

\* C12: a response that decodes to an object without the analysis field, or
\* without files_to_modify, does not make the analyze step raise.
C12_MissingFieldsTolerated ==
    analysis.response \in {"object_no_analysis", "object_no_files"}
    => failedStep # "analyze"

\* C13: a response that holds exactly one well-formed JSON object, whatever
\* prose (braces included) surrounds it, is interpreted as the decoding of
\* that object; a response holding no JSON object is interpreted as the
\* fallback.
C13_InterpreterRoundTrip ==
    call.fn = "interpret_response" =>
       LET response == call.arg
           objects == {ij \in (1..Len(response)) \X (1..Len(response)) :
                         JSONDecodes(SubSeq(response, ij[1], ij[2]))}
       IN  /\ Cardinality(objects) = 1 =>
                LET ij == CHOOSE o \in objects : TRUE
                IN  call.result =
                       [parsed |-> TRUE,
                        data |-> json_loads(SubSeq(response, ij[1], ij[2]))]
           /\ objects = {} => ~call.result.parsed

\* C14: validate_file_path rejects a path with a traversal segment, an
\* absolute path, a path holding a shell metacharacter and a path whose
\* extension is outside the allow-list, and accepts every other relative
\* path; it rejects ../secret.py, /etc/passwd and a$b.py and accepts
\* src/app.py and docs/readme.md.
C14_PathValidation ==
    call.fn = "validate_file_path" =>
       LET p == call.arg
           traversal ==
               \E i \in 1..(Len(p) - 1) :
                  /\ p[i] = "." /\ p[i + 1] = "."
                  /\ (i = 1 \/ p[i - 1] = "/")
                  /\ (i + 1 = Len(p) \/ p[i + 2] = "/")
           absolute == Len(p) > 0 /\ p[1] = "/"
           metachar ==
               \E k \in 1..Len(p) :
                  p[k] \in {"~", "$", "BACKTICK", ";", "|", "&", "<", ">",
                            "(", ")", "*", "?", " "}
           extension == Lower(PathSuffix(p))
           outside == extension # <<>> /\ extension \notin valid_extensions
       IN  /\ call.result = ~(traversal \/ absolute \/ metachar \/ outside)
           /\ p \in {SecretPy, EtcPasswd, ADollarBPy} => ~call.result
           /\ p \in {SrcAppPy, DocsReadmeMd} => call.result

\* C15: the branch name of a plan never exceeds 100 characters and its part
\* after the prefix, "issue-", the item id and the dash (the title slug)
\* never exceeds 50; deriving the plan again for the same title, item id and
\* prefix, from whatever analysis, gives the same branch name.
C15_BranchNameFunction ==
    /\ [](call.fn \in {"_create_implementation_plan", "plan_again"} =>
            LET head == Len(call.arg.branch_prefix) + 6
                          + Len(Str(call.arg.issue_number)) + 1
            IN  /\ Len(call.result.branch_name) <= branch_name_limit
                /\ Len(call.result.branch_name) <= head + clean_title_limit
                /\ Len(clean_title(call.arg.issue_title)) <= clean_title_limit
                /\ call.result.issue_number = call.arg.issue_number)
    /\ [][(call.fn \in {"_create_implementation_plan", "plan_again"}
             /\ call'.fn = "plan_again")
            => /\ call'.arg.issue_title = call.arg.issue_title
               /\ call'.arg.issue_number = call.arg.issue_number
               /\ call'.arg.branch_prefix = call.arg.branch_prefix
               /\ call'.result.branch_name = call.result.branch_name]_vars

C15_Witness ==
    /\ call.fn = "plan_again"
    /\ Len(call.arg.issue_title) > clean_title_limit
    /\ Len(clean_title(call.arg.issue_title)) = clean_title_limit
    /\ Len(call.arg.branch_prefix) > 0
    /\ Len(call.result.branch_name) = branch_name_limit
    /\ call.result.files_to_modify # <<>>

\* C16: for two WorkItems with different identifiers, whatever their titles
\* and whatever the configured prefix, the derived branch names differ.
C16_BranchNamesUnique ==
    call.fn = "_create_implementation_plan" =>
       \A other \in Issues \ {call.arg.issue_number} :
          \A title \in {call.arg.issue_title} \cup {Rep(u, 1) : u \in TitleUnits} :
             branch_name(call.arg.branch_prefix, other, title)
                # call.result.branch_name

\* C17: the implement step never raises: the candidate files are attempted
\* one after the other in list order whatever happened to the earlier ones,
\* an invalid path is skipped with no platform read or write, and when the
\* list is through control goes on to the quality step.
C17_ImplementNeverAborts ==
    /\ [](/\ failedStep # "implement"
          /\ ipc = "implement" =>
               /\ Len(file_log) = file_idx - 1
               /\ Len(file_log) <= Len(plan_files)
               /\ \A k \in 1..Len(file_log) :
                    /\ k <= Len(plan_files) /\ file_log[k].path = plan_files[k]
                    /\ ~validate_file_path(file_log[k].path) =>
                          /\ file_log[k].outcome = "skipped"
                          /\ file_log[k].path \notin files_written)
    /\ [][ipc = "implement" =>
            /\ ipc' \in {"implement", "quality"}
            /\ ipc' = "quality" => Len(file_log) = Len(plan_files)
            /\ (file_idx <= Len(plan_files)
                  /\ ~validate_file_path(plan_files[file_idx]))
               => (platformVars' = platformVars
                     /\ files_written' = files_written)]_vars

C17_Witness ==
    /\ ipc = "implement"
    /\ Len(file_log) = 2
    /\ file_log[1].outcome \in {"skipped", "failed"}
    /\ file_log[2].outcome = "written"
    /\ \E k \in 1..Len(plan_files) : ~validate_file_path(plan_files[k])

\* C18: for the requirement "add a configuration loader in yaml" and a
\* repository tree, the resolver returns, in tree order, the first at most
\* 50 entries whose path ends in .yaml, .yml or .json and holds no excluded
\* substring; the result has at most 50 entries, all of the tree, none
\* holding node_modules/ or .git.
C18_ResolverResult ==
    (call.fn = "_discover_relevant_files"
       /\ call.arg.requirement = ConfigRequirement) =>
       LET tree == call.arg.tree
           wanted(path) ==
               /\ \/ EndsWith(path, <<".", "y", "a", "m", "l">>)
                  \/ EndsWith(path, <<".", "y", "m", "l">>)
                  \/ EndsWith(path, <<".", "j", "s", "o", "n">>)
               /\ \A exclude \in excluded_substrings : ~Contains(path, exclude)
           all == SelectSeq(tree, wanted)
       IN  /\ call.arg.tree_ok =>
                call.result = SubSeq(all, 1, IF Len(all) < 50 THEN Len(all) ELSE 50)
           /\ Len(call.result) <= 50
           /\ \A k \in 1..Len(call.result) :
                /\ \E j \in 1..Len(tree) : tree[j] = call.result[k]
                /\ ~Contains(call.result[k],
                             <<"n", "o", "d", "e", "_", "m", "o", "d", "u", "l",
                               "e", "s", "/">>)
                /\ ~Contains(call.result[k], <<".", "g", "i", "t">>)

C18_Witness ==
    /\ call.fn = "_discover_relevant_files"
    /\ call.arg.requirement = ConfigRequirement
    /\ Len(call.result) = 50
    /\ Len(call.arg.tree) > 100
    /\ \E k \in 1..Len(call.arg.tree) :
          Contains(call.arg.tree[k],
                   <<"n", "o", "d", "e", "_", "m", "o", "d", "u", "l", "e",
                     "s", "/">>)
    /\ call.result[50] # call.arg.tree[50]

\* C19: the quality step never raises: whatever the clone and the tools do,
\* it returns a report with status failed, skipped or completed (failed when
\* the clone failed) and control goes on to the propose step.
C19_QualityNeverAborts ==
    /\ [](failedStep # "quality")
    /\ [][ipc = "quality" =>
            /\ ipc' = "propose"
            /\ stepsDone' = Append(stepsDone, "quality")
            /\ quality_report'.status \in {"failed", "skipped", "completed"}
            /\ quality_report'.clone \in {"nonzero", "timeout", "error"}
                  => quality_report'.status = "failed"]_vars

C19_Witness ==
    /\ ipc = "propose"
    /\ quality_report.status = "failed"
    /\ quality_report.clone = "timeout"
    /\ failedStep = ""

\* C20: a review whose verdict is the fallback or the technical-error
\* verdict has meets_requirements false; whatever its status and the CI
\* status, the run makes no merge call and its label update does not put
\* the approved label on the ChangeRequest.
C20_UnparsedNeverApproves ==
    /\ [](verdict_source \in {"fallback", "error"} =>
            /\ ~review_results.meets_requirements
            /\ ~mergeCalled
            /\ next_action # "merge"
            /\ prState[r_pr] # "merged"
            /\ (\E k \in 1..Len(rEvents) : rEvents[k] = "labels") => "approved" \notin prLabels[r_pr])
    /\ [][(verdict_source \in {"fallback", "error"}
             /\ "approved" \in prLabels'[r_pr])
            => "approved" \in prLabels[r_pr]]_vars

C20_Witness ==
    /\ verdict_source = "fallback"
    /\ review_results.status = "approved"
    /\ ci_status.success
    /\ rpc = "returned"
    /\ "needs-work" \in prLabels[r_pr]

\* C30: _determine_next_action never returns wait: for every verdict a
\* response can decode to (meets_requirements true, false or missing, any
\* status or none) and every CI status, the action is merge, fix_ci or
\* request_changes.
C30_WaitUnreachable ==
    /\ next_action \in {"", "merge", "fix_ci", "request_changes"}
    /\ rpc = "decide" =>
          _determine_next_action(review_results, ci_status)
             \in {"merge", "fix_ci", "request_changes"}

C30_Witness ==
    /\ rpc = "returned"
    /\ next_action = "request_changes"
    /\ review_results.has_meets /\ review_results.meets_requirements
    /\ ~review_results.has_status
    /\ ci_status.success
    /\ ~mergeCalled

\* C29: when a process_issue run has ended, every ChangeRequest it opened
\* carries both provenance labels, also when a platform call failed right
\* after the ChangeRequest was opened.
C29_ProvenanceLabels ==
    ipc \in {"returned", "raised"} =>
       \A p \in PRs : prState[p] = "open" => provenance_labels \subseteq prLabels[p]

\* C22 as claimed: a clone timeout in the quality step terminates the run as
\* a failed step, with no ChangeRequest opened for the WorkItem.
C22_CloneTimeoutBlocks ==
    quality_report.clone = "timeout" =>
       /\ failedStep = "quality"
       /\ prState[issue_number] # "open"

\* C22 as amended: a clone timeout in the quality step is not a step failure:
\* the step returns a report with status failed, control goes on to the
\* propose step with the WorkItem still in-progress and no error comment, and
\* the ChangeRequest of the run can be opened.
C22_CloneTimeoutDegrades ==
    /\ [](quality_report.clone = "timeout" =>
            /\ quality_report.status = "failed"
            /\ failedStep = ""
            /\ ipc \in {"propose", "set_needs_review"}
            /\ issueLabels[issue_number] \cap status_labels = {"in-progress"}
            /\ "error" \notin iComments)
    /\ [][(ipc = "quality" /\ quality_report'.clone = "timeout")
            => (ipc' = "propose" /\ UNCHANGED <<issueLabels, iComments>>)]_vars

C22_Witness ==
    /\ quality_report.clone = "timeout"
    /\ ipc = "set_needs_review"
    /\ prState[issue_number] = "open"
    /\ pr_number = issue_number
    /\ provenance_labels \subseteq prLabels[issue_number]

\* C23: a call of handle_review_feedback made after the iteration budget is
\* exhausted never ends by an exception: it posts the escalation comment,
\* reads and writes no file of the branch, and returns False, whatever the
\* platform does with the call that posts the comment.
C23_RefusalNeverThrows ==
    (iteration_count > max_iterations /\ fpc \in {"returned", "raised"}) =>
        /\ fpc = "returned"
        /\ ~fret
        /\ fTrace.escalated
        /\ fTrace.log = {}
        /\ fTrace.written = {}

\* C24: in an accepted call of handle_review_feedback a file is written to the
\* branch exactly when it is a changed file of the ChangeRequest whose content
\* was read as non-empty text, whose revision differs from that content and
\* whose write went through; a file with equal revision, with empty or
\* unreadable content, or outside the changed-file list is not written; and
\* whatever happens to one file, the call goes through every changed file and
\* returns True.
C24_RevisionWrites ==
    /\ fTrace.written \subseteq fTrace.changed
    /\ \A f \in {SrcAppPy, DocsReadmeMd} :
         f \in fTrace.written <=>
            \E e \in fTrace.log : /\ e.file = f
                                  /\ e.content = "text"
                                  /\ e.revision = "differs"
                                  /\ e.write = "ok"
    /\ \A e \in fTrace.log : e.file \in fTrace.changed \ f_todo
    /\ (fpc = "loop" =>
          \A f \in fTrace.changed \ f_todo : \E e \in fTrace.log : e.file = f)
    /\ ((fpc = "returned" /\ fTrace.reachedLoop) =>
          /\ fret
          /\ \A f \in fTrace.changed : \E e \in fTrace.log : e.file = f)

C24_Witness ==
    /\ fpc = "returned"
    /\ fret
    /\ fTrace.changed = {SrcAppPy, DocsReadmeMd}
    /\ fTrace.written = {DocsReadmeMd}
    /\ \E e \in fTrace.log : e.file = SrcAppPy /\ e.revision = "raises"

\* C25 as stated: in every reachable state the iteration counter is at most
\* the configured maximum.
C25_CounterBounded ==
    iteration_count <= max_iterations

\* C25, amended: the counter is incremented by every call, refused ones
\* included, so it passes the maximum; what the maximum bounds is the accepted
\* calls: a call is on the accepted path only while the counter is at most the
\* maximum, it is on the refusal path only when the counter is above it, and
\* the counter never decreases.
C25_AcceptedCallsBounded ==
    /\ [](/\ (fpc \in {"announce", "fetch", "loop"} =>
                iteration_count <= max_iterations)
          /\ (fpc = "escalate" => iteration_count > max_iterations)
          /\ (fTrace.announced => iteration_count <= max_iterations))
    /\ [][iteration_count' >= iteration_count]_vars

C25_Witness ==
    /\ fpc = "escalate"
    /\ iteration_count = max_iterations + 2

\* C26: for the requirement "add a test" (the keyword test and no other) and
\* a repository tree, the resolver returns the entries of the tree that are
\* test files, i.e. whose path contains "test" and ends in ".py", and that
\* hold no excluded substring (the first 50 of them, in tree order).
C26_TestFilesFound ==
    (call.fn = "_discover_relevant_files"
       /\ call.arg.requirement = TestRequirement
       /\ call.arg.tree_ok) =>
       LET tree == call.arg.tree
           wanted(path) ==
               /\ Contains(path, <<"t", "e", "s", "t">>)
               /\ EndsWith(path, <<".", "p", "y">>)
               /\ \A exclude \in excluded_substrings : ~Contains(path, exclude)
           all == SelectSeq(tree, wanted)
       IN  call.result = Take(all, discovered_files_limit)

\* C27: a requirement text that mentions "config", "json" or "yaml" yields
\* the patterns *.json, *.yaml and *.yml; a text with none of the keywords of
\* the four groups yields exactly <<*.py>>; and the pattern list is never
\* empty.
C27_PatternDerivation ==
    call.fn = "_determine_file_patterns" =>
       LET text == call.arg.requirement
           has(pattern) ==
               \E k \in 1..Len(call.result) : call.result[k] = pattern
           recognised ==
               \E keyword \in {<<"p", "y", "t", "h", "o", "n">>, <<".", "p",
                   "y">>, <<"p", "y", " ", "f", "i", "l", "e">>, <<"d", "o",
                   "c", "u", "m", "e", "n", "t", "a", "t", "i", "o", "n">>,
                   <<"r", "e", "a", "d", "m", "e">>, <<".", "m", "d">>, <<"m",
                   "a", "r", "k", "d", "o", "w", "n">>, <<"t", "e", "s",
                   "t">>, <<"c", "o", "n", "f", "i", "g">>, <<"j", "s", "o",
                   "n">>, <<"y", "a", "m", "l">>, <<".", "y", "m", "l">>} :
                  Contains(text, keyword)
       IN  /\ (\E keyword \in {<<"c", "o", "n", "f", "i", "g">>,
                                <<"j", "s", "o", "n">>, <<"y", "a", "m", "l">>} :
                  Contains(text, keyword))
                 => (/\ has(<<"*", ".", "j", "s", "o", "n">>)
                     /\ has(<<"*", ".", "y", "a", "m", "l">>)
                     /\ has(<<"*", ".", "y", "m", "l">>))
           /\ ~recognised => call.result = <<<<"*", ".", "p", "y">>>>
           /\ call.result # <<>>

\* C21: once a review of a ChangeRequest has returned with an action other
\* than merge, the daemon starts no further review of that ChangeRequest in a
\* later poll cycle (handle_review_feedback is never called by the daemon, so
\* no revision comes in between).
C21_NoAutomaticReReview ==
    [][(dpc = "prs_loop" /\ dpc' = "in_review") => r_pr' \notin reviewed]_vars

C31_DedupWithinInstance ==
    /\ [][processed_issues \subseteq processed_issues']_vars
    /\ [][(dpc = "in_issue" /\ ipc = "returned" /\ iret # 0
             /\ dpc' = "issues_loop") => issue_number \in processed_issues']_vars
    /\ [][(dpc = "issues_loop" /\ dpc' = "in_issue") =>
            /\ issue_number' \notin processed_issues
            /\ ~(/\ prState[issue_number'] # "none"
                 /\ "needs-review" \in issueLabels[issue_number'])]_vars
    /\ [][\A p \in PRs :
            /\ (prState[p] # "none" => prState'[p] # "none")
            /\ ((prState[p] = "none" /\ prState'[p] = "open") =>
                  p \notin processed_issues)]_vars

C31_Witness ==
    /\ dpc = "in_issue"
    /\ issue_number = 2
    /\ attempts["Issue"][1] = 0
    /\ 1 \in processed_issues
    /\ prState[1] = "open"
    /\ "needs-review" \in issueLabels[1]

\* C32: a WorkItem whose run ended Blocked stays selectable: while it carries
\* the blocked label it is not in the processed set, no listing puts it
\* there, and a later poll cycle hands it to process_issue again; a WorkItem
\* that a run left with the in-progress label is put into the processed set
\* by the next listing, is not selected, is never handed to process_issue
\* again and keeps the label.
C32_BlockedIsRetried ==
    /\ [](\A k \in Issues :
            "blocked" \in issueLabels[k] =>
               /\ k \notin processed_issues
               /\ issueLabels[k] \cap {"in-progress", "processed", "agent-handled"} = {})
    /\ [][(dpc = "list_issues" /\ dpc' = "issues_loop") =>
            \A k \in Issues :
               "in-progress" \in issueLabels[k] =>
                  /\ k \in processed_issues'
                  /\ \A j \in 1..Len(new_issues') : new_issues'[j] # k]_vars
    /\ [][(dpc = "issues_loop" /\ dpc' = "in_issue") =>
            "in-progress" \notin issueLabels[issue_number']]_vars
    /\ [][\A k \in Issues :
            (k \in processed_issues /\ "in-progress" \in issueLabels[k]) =>
               (k \in processed_issues' /\ "in-progress" \in issueLabels'[k])]_vars

C32_Witness ==
    /\ dpc = "in_issue"
    /\ runs = 2
    /\ ipc = "handler"
    /\ attempts["Issue"][issue_number] = 1
    /\ "blocked" \in issueLabels[issue_number]

\* C33: the daemon never starts a review of a ChangeRequest that carries the
\* approved label, and an open ChangeRequest that a finished review left
\* with the approved label (the action was fix_ci, or the merge call failed)
\* stays open and approved for ever: no later poll cycle reviews or merges it.
C33_ApprovedNeverSelected ==
    /\ [](\A j \in 1..Len(pending_prs) :
            (j >= pr_idx /\ dpc = "prs_loop") =>
               "approved" \notin prLabels[pending_prs[j]])
    /\ [][(dpc = "prs_loop" /\ dpc' = "in_review") =>
            "approved" \notin prLabels[r_pr']]_vars
    /\ [][\A p \in PRs :
            (prState[p] = "open" /\ "approved" \in prLabels[p] /\ r_pr # p) =>
               (prState'[p] = "open" /\ "approved" \in prLabels'[p] /\ r_pr' # p)]_vars

C33_Witness ==
    /\ dpc = "sleep"
    /\ 1 \in reviewed
    /\ attempts["PR"][1] = 0
    /\ prState[1] = "open"
    /\ "approved" \in prLabels[1]

\* C34: the iteration budget belongs to the CodeAgent, not to a
\* ChangeRequest: the counter equals the number of handle_review_feedback
\* calls made on the agent so far, whatever ChangeRequest each was for (it
\* goes up by one per call, accepted or refused, and never down); the
\* accepted calls, counted over all ChangeRequests, are at most
\* max_iterations; and after a refused call every later call is refused.
C34_SharedBudget ==
    /\ [](/\ iteration_count = Len(fTrace.calls)
          /\ Cardinality({k \in 1..Len(fTrace.calls) : fTrace.calls[k].accepted})
                <= max_iterations
          /\ \A j, k \in 1..Len(fTrace.calls) :
                (j < k /\ ~fTrace.calls[j].accepted) => ~fTrace.calls[k].accepted)
    /\ [][/\ iteration_count' \in {iteration_count, iteration_count + 1}
          /\ max_iterations' = max_iterations
          /\ (fTrace'.calls # fTrace.calls =>
                /\ iteration_count' = iteration_count + 1
                /\ fpc' = IF fTrace'.calls[Len(fTrace'.calls)].accepted
                          THEN "announce" ELSE "escalate")]_vars

C34_Witness ==
    /\ max_iterations = 2
    /\ Len(fTrace.calls) = 4
    /\ fTrace.calls[1] = [pr |-> 1, accepted |-> TRUE]
    /\ fTrace.calls[2] = [pr |-> 2, accepted |-> TRUE]
    /\ fTrace.calls[3] = [pr |-> 1, accepted |-> FALSE]
    /\ fTrace.calls[4] = [pr |-> 2, accepted |-> FALSE]
    /\ fpc = "returned"
    /\ fTrace.escalated

\* C35: a status update changes, on its WorkItem, only labels of the status
\* group, and a review changes, on its ChangeRequest, only labels of the
\* outcome group; no step removes a label outside these groups from any
\* entity, so the bug label of WorkItem 1 and the provenance labels of
\* ChangeRequest 1 are there after every sequence of status updates and
\* reviews.
C35_OtherLabelsKept ==
    /\ [][/\ \A i \in Issues :
               /\ issueLabels'[i] \ status_labels = issueLabels[i] \ status_labels
               /\ (issueLabels'[i] # issueLabels[i] => i = issue_number)
          /\ \A p \in PRs :
               /\ prLabels[p] \ review_labels \subseteq prLabels'[p]
               /\ (rpc = "post_labels" =>
                     /\ prLabels'[p] \ review_labels = prLabels[p] \ review_labels
                     /\ (prLabels'[p] # prLabels[p] => p = r_pr))]_vars
    /\ [](/\ "bug" \in issueLabels[1]
          /\ provenance_labels \subseteq prLabels[1])

C35_Witness ==
    /\ dpc = "sleep"
    /\ issueLabels[1] = {"bug", "blocked"}
    /\ prLabels[1] = provenance_labels \cup {"changes-requested"}
    /\ attempts["Issue"][1] = 1
    /\ attempts["PR"][1] = 1

\* C36: a run of process_issue that ends Blocked has opened no ChangeRequest:
\* in no state is the ChangeRequest of the run open while the WorkItem of the
\* run is labelled blocked, and a run that returned None left no open
\* ChangeRequest.
C36_BlockedHasNoChangeRequest ==
    /\ ~(/\ issue_number \in Issues
         /\ prState[issue_number] = "open"
         /\ "blocked" \in issueLabels[issue_number])
    /\ (ipc = "returned" /\ iret = 0) => prState[issue_number] # "open"

\* C37: within one review the label and the decision agree: once the review
\* has set the labels, the ChangeRequest carries approved exactly when the
\* verdict has status approved and meets_requirements true; a merge is
\* attempted only on a ChangeRequest this review labelled approved; and a
\* review that returns with the ChangeRequest labelled approved decided on
\* merge or fix_ci.
C37_LabelAgreesWithDecision ==
    LET labelled == \E k \in 1..Len(rEvents) : rEvents[k] = "labels"
        verdict_approves ==
            /\ review_results.has_status /\ review_results.status = "approved"
            /\ DictGet(review_results.has_meets,
                       review_results.meets_requirements, FALSE)
    IN  /\ (labelled /\ rpc \in {"post_comment", "decide", "returned"}) =>
              ("approved" \in prLabels[r_pr] <=> verdict_approves)
        /\ mergeCalled => (labelled /\ "approved" \in prLabels[r_pr])
        /\ rpc = "returned" => labelled
        /\ (rpc = "returned" /\ "approved" \in prLabels[r_pr]) =>
              next_action \in {"merge", "fix_ci"}

C37_Witness ==
    /\ rpc = "returned"
    /\ mergeCalled
    /\ prState[r_pr] = "open"
    /\ "approved" \in prLabels[r_pr]
    /\ "approved" \notin current_labels
    /\ next_action = "merge"

\* C38: the success flag of get_ci_status is true exactly when the
\* ChangeRequest has a commit and every status entry of its latest commit is
\* in state success: an entry in another state or no commit makes it false,
\* no entry at all makes it true, and with that flag an approved verdict that
\* meets the requirements is decided as merge.
C38_CISuccessFlag ==
    call.fn = "get_ci_status" =>
       LET statuses == call.arg.statuses
       IN  /\ call.result.success <=>
                 (/\ call.arg.hasCommits
                  /\ \A k \in 1..Len(statuses) : statuses[k] = "success")
           /\ (call.arg.hasCommits /\ statuses = <<>>) =>
                 /\ call.result.success
                 /\ _determine_next_action(Verdict(TRUE, "approved", TRUE, TRUE),
                                           call.result) = "merge"
           /\ ~call.arg.hasCommits => ~call.result.success

C38_Witness ==
    /\ call.fn = "get_ci_status"
    /\ call.arg.hasCommits
    /\ call.arg.statuses = <<>>
    /\ call.result.success

\* C39: in the Implement step every file written is a candidate path that
\* validate_file_path accepted, or the test path derived from such a path
\* for which tests are generated; every write goes to the working branch of
\* the plan and none to the base branch; and a path the validation rejects
\* is skipped before any read or write, so it is never among the written
\* files.
C39_OnlyValidPathsWritten ==
    /\ [](/\ \A f \in files_written :
               /\ ~Contains(f, <<".", ".">>)
               /\ \E c \in CandidatePaths :
                     /\ validate_file_path(c)
                     /\ \/ f = c
                        \/ /\ _should_generate_tests(c)
                           /\ f = _get_test_file_path(c, TestsRoot)
          /\ \A k \in 1..Len(file_log) :
               LET e == file_log[k]
               IN  /\ e.outcome = "skipped" <=> ~validate_file_path(e.path)
                   /\ e.outcome \in {"written", "written_with_test"} =>
                         /\ e.branch = issue_number
                         /\ e.branch # BaseBranch
                         /\ e.branch \in branches
                         /\ e.path \in files_written
                   /\ e.outcome \in {"skipped", "failed"} =>
                         e.branch = BaseBranch - 1)
    /\ [][files_written' # files_written =>
            /\ ipc = "implement"
            /\ file_idx <= Len(plan_files)
            /\ validate_file_path(plan_files[file_idx])
            /\ files_written' \ files_written \subseteq
                  {plan_files[file_idx],
                   _get_test_file_path(plan_files[file_idx], TestsRoot)}]_vars

C39_Witness ==
    /\ ipc = "implement"
    /\ Len(file_log) = 2
    /\ file_log[1].path = SecretPy
    /\ file_log[1].outcome = "skipped"
    /\ file_log[2].path = SrcAppPy
    /\ file_log[2].outcome = "written_with_test"
    /\ files_written = {SrcAppPy, _get_test_file_path(SrcAppPy, TestsRoot)}

====
